---------------------------- MODULE Spec2Model ----------------------------
(***************************************************************************)
(* Model of the SVG scoping engine (svg-scope): sanitizeId,                *)
(* prefixCssSelectors, stripTransitionFromInlineStyle, the level-rect      *)
(* enhancement and scopeSvgContent.                                        *)
(*                                                                         *)
(* Text is modelled as a sequence of one-character strings.  A character   *)
(* that has no ASCII spelling is named: "sup1" is U+00B9 SUPERSCRIPT ONE,  *)
(* "ar3" is U+0663 ARABIC-INDIC DIGIT THREE.                               *)
(***************************************************************************)
EXTENDS Integers, Sequences, FiniteSets, TLC

VARIABLES
    svgText,      \* scopeSvgContent: the document handed to the first call
    opts,         \* scopeSvgContent: the options of the first call
    r1,           \* result of scopeSvgContent(svgText, opts)
    r2,           \* result of scopeSvgContent(r1.processed, {desiredId: r1.svgId})
    pc,           \* "start" | "scoped" | "rescoped"
    sheet,        \* prefixCssSelectors: the style sheet text
    sheetId,      \* prefixCssSelectors: the target id
    sheetAliases, \* prefixCssSelectors: the alias list
    pres,         \* result of prefixCssSelectors(sheet, sheetId, sheetAliases)
    pres2,        \* result of prefixCssSelectors(pres.css, sheetId, sheetAliases)
    ppc,          \* "start" | "done" | "again"
    idIn,         \* sanitizeId: the value
    idOut,        \* result of sanitizeId(idIn)
    spc,          \* "start" | "done"
    entries,      \* App: the entries state, a list of SvgEntry
    activeEntryId, \* App: the activeEntryId state, NoEntry for null
    copiedEntryId, \* App: the copiedEntryId state, NoEntry for null
    readers,      \* App: the FileReaders that have not called back yet
    copying,      \* App: the entries whose clipboard write is not settled yet
    ops           \* App: how many clicks and edits the user has made

vars ==
    <<svgText, opts, r1, r2, pc, sheet, sheetId, sheetAliases, pres, pres2, ppc,
      idIn, idOut, spc, entries, activeEntryId, copiedEntryId, readers, copying,
      ops>>

scopeVars == <<svgText, opts, r1, r2, pc>>

prefixVars == <<sheet, sheetId, sheetAliases, pres, pres2, ppc>>

sanitizeVars == <<idIn, idOut, spc>>

appVars == <<entries, activeEntryId, copiedEntryId, readers, copying, ops>>

\* An attribute or option that may be absent (getAttribute returns null, an
\* option is undefined).
Absent == [has |-> FALSE, v |-> <<>>]

Present(s) == [has |-> TRUE, v |-> s]

\* value ?? ''
OrEmpty(a) == IF a.has THEN a.v ELSE <<>>

\* A result slot that no call has filled yet.
NoResult == "<no result>"

(***************************************************************************)
(* Strings                                                                 *)
(***************************************************************************)

Letters == {"a", "b", "f", "g", "s", "v", "x"}

AsciiDigits == {"0", "1", "9"}

\* \p{Number} also holds digits outside 0-9 and compatibility forms of digits.
Numbers == AsciiDigits \cup {"sup1", "ar3"}

Whitespace == {" "}

\* The elements of a sequence.
Range(s) == {s[i] : i \in 1..Len(s)}

RECURSIVE Cat(_)
\* The concatenation of a sequence of strings.
Cat(ss) == IF ss = <<>> THEN <<>> ELSE Head(ss) \o Cat(Tail(ss))

RECURSIVE TrimStart(_)
TrimStart(s) ==
    IF s # <<>> /\ Head(s) \in Whitespace THEN TrimStart(Tail(s)) ELSE s

RECURSIVE TrimEnd(_)
TrimEnd(s) ==
    IF s # <<>> /\ s[Len(s)] \in Whitespace
    THEN TrimEnd(SubSeq(s, 1, Len(s) - 1))
    ELSE s

\* String.prototype.trim
Trim(s) == TrimEnd(TrimStart(s))

\* String.prototype.normalize('NFKC') on the characters of the model.
NfkcChar(c) == IF c = "sup1" THEN "1" ELSE c

Nfkc(s) == [i \in 1..Len(s) |-> NfkcChar(s[i])]

\* ID_SAFE_PATTERN is the complement of this class.
IsIdSafe(c) == c \in Letters \cup Numbers \cup {"_", "-"}

RECURSIVE ReplaceUnsafeRuns(_)
\* replace(ID_SAFE_PATTERN, '-'): every maximal run of unsafe characters
\* becomes one hyphen.
ReplaceUnsafeRuns(s) ==
    IF s = <<>> THEN <<>>
    ELSE IF IsIdSafe(Head(s)) THEN <<Head(s)>> \o ReplaceUnsafeRuns(Tail(s))
    ELSE IF Len(s) > 1 /\ ~IsIdSafe(s[2]) THEN ReplaceUnsafeRuns(Tail(s))
    ELSE <<"-">> \o ReplaceUnsafeRuns(Tail(s))

RECURSIVE CollapseHyphens(_)
\* replace(/-+/g, '-')
CollapseHyphens(s) ==
    IF s = <<>> THEN <<>>
    ELSE IF Len(s) > 1 /\ s[1] = "-" /\ s[2] = "-" THEN CollapseHyphens(Tail(s))
    ELSE <<Head(s)>> \o CollapseHyphens(Tail(s))

RECURSIVE StripLeadingHyphens(_)
\* replace(/^-+/, '')
StripLeadingHyphens(s) ==
    IF s # <<>> /\ Head(s) = "-" THEN StripLeadingHyphens(Tail(s)) ELSE s

RECURSIVE StripTrailingHyphens(_)
\* replace(/-+$/, '')
StripTrailingHyphens(s) ==
    IF s # <<>> /\ s[Len(s)] = "-"
    THEN StripTrailingHyphens(SubSeq(s, 1, Len(s) - 1))
    ELSE s

SvgPrefix == <<"s", "v", "g", "-">>

\* A mutant of sanitizeId: a result that starts with a digit is returned as
\* it is.
sanitizeIdNoPrefix(value) ==
    StripTrailingHyphens(StripLeadingHyphens(CollapseHyphens(
        ReplaceUnsafeRuns(Nfkc(value)))))

sanitizeId(value) ==
    LET normalized == Nfkc(value)
        replaced == ReplaceUnsafeRuns(normalized)
        collapsed ==
            StripTrailingHyphens(StripLeadingHyphens(CollapseHyphens(replaced)))
    IN  IF collapsed = <<>> THEN <<>>
        ELSE IF Head(collapsed) \in AsciiDigits THEN SvgPrefix \o collapsed
        ELSE collapsed

\* `svg-${Math.random().toString(36).slice(2, 10)}`: token is the slice, which
\* is shorter than 8 characters when the base-36 expansion is short and empty
\* when Math.random() returns 0.
generateSvgId(token) == SvgPrefix \o token

RECURSIVE LastExtensionStart(_, _)
\* The index where /\.[^/.\\]+$/ matches in s (a dot followed, up to the end,
\* by one or more characters other than '/', '.' and '\'), or 0.
LastExtensionStart(s, i) ==
    IF i = 0 THEN 0
    ELSE IF s[i] = "." THEN (IF i < Len(s) THEN i ELSE 0)
    ELSE IF s[i] \in {"/", "\\"} THEN 0
    ELSE LastExtensionStart(s, i - 1)

\* fileName.replace(/\.[^/.\\]+$/g, '')
StripExtension(s) ==
    LET k == LastExtensionStart(s, Len(s))
    IN  IF k = 0 THEN s ELSE SubSeq(s, 1, k - 1)

\* suffix is Math.floor(Math.random() * 9000 + 1000).toString()
deriveIdFromFileName(fileName, suffix) ==
    IF ~fileName.has \/ fileName.v = <<>> THEN <<>>
    ELSE LET sanitizedBase == sanitizeId(StripExtension(fileName.v))
         IN  IF sanitizedBase = <<>> THEN <<>>
             ELSE sanitizedBase \o <<"-">> \o suffix

(***************************************************************************)
(* CSS text and its syntax tree (css-tree)                                 *)
(*                                                                         *)
(* A property name is a sequence of tokens: "-" and words.  A component of *)
(* a selector is [type, name]; a selector is a sequence of components; a   *)
(* rule is [prelude, selectors, decls]; a style sheet text is              *)
(* [kind, rules, raw, comments]: kind "blank" is whitespace only, "bad" is *)
(* a text on which parse throws, "css" a text that parses to rules.  raw   *)
(* says the text is as its author wrote it, not as generate prints it;     *)
(* comments holds the '.name' tokens written inside comments, which parse  *)
(* drops.                                                                  *)
(***************************************************************************)

LowerWords == {"transition", "transitions", "webkit", "delay", "fill", "height"}

\* String.prototype.toLowerCase on one token.
ToLowerWord(w) ==
    CASE w = "TRANSITION" -> "transition"
      [] w = "Transition" -> "transition"
      [] w = "WEBKIT" -> "webkit"
      [] OTHER -> w

ToLower(p) == [i \in 1..Len(p) |-> ToLowerWord(p[i])]

\* replace(VENDOR_PREFIX_PATTERN, ''): one leading -letters- is removed.
StripVendorPrefix(p) ==
    IF Len(p) >= 3 /\ p[1] = "-" /\ p[2] \in LowerWords /\ p[3] = "-"
    THEN SubSeq(p, 4, Len(p))
    ELSE p

isTransitionProperty(property) ==
    LET normalized == ToLower(property)
        withoutVendor == StripVendorPrefix(normalized)
    IN  \/ withoutVendor = <<"transition">>
        \/ /\ Len(withoutVendor) >= 2
           /\ withoutVendor[1] = "transition"
           /\ withoutVendor[2] = "-"

IdSelector(name) == [type |-> "IdSelector", name |-> name]

ClassSelector(name) == [type |-> "ClassSelector", name |-> name]

Combinator(name) == [type |-> "Combinator", name |-> name]

CssText(rules) == [kind |-> "css", rules |-> rules, raw |-> TRUE, comments |-> {}]

\* generate(ast): the printed form of a tree.
generate(rules) ==
    [kind |-> "css", rules |-> rules, raw |-> FALSE, comments |-> {}]

\* The warning pushed for a selector that holds another #id; it quotes
\* generate(selector).
ForeignIdWarning(selector) == [kind |-> "foreignId", selector |-> selector]

\* The warning returned when parse throws.
ParseFailedWarning == [kind |-> "parseFailed", selector |-> <<>>]

(***************************************************************************)
(* prefixCssSelectors                                                      *)
(***************************************************************************)

\* new Set(aliases.filter((name) => name && name !== id))
AliasSet(aliases, id) ==
    {aliases[i] : i \in {j \in 1..Len(aliases) : aliases[j] # <<>> /\ aliases[j] # id}}

\* The inner forEach over selector.children: the three flags it sets and the
\* children after the alias components were renamed in place.
ScanSelector(selector, id, aliasSet) ==
    LET IsId(i) == selector[i].type = "IdSelector"
        idx == 1..Len(selector)
    IN  [hadTargetBefore |-> \E i \in idx : IsId(i) /\ selector[i].name = id,
         hadAliasBefore |->
            \E i \in idx :
                IsId(i) /\ selector[i].name # id /\ selector[i].name \in aliasSet,
         hasOtherId |->
            \E i \in idx :
                IsId(i) /\ selector[i].name # id /\ selector[i].name \notin aliasSet,
         children |->
            [i \in idx |->
                IF IsId(i) /\ selector[i].name # id /\ selector[i].name \in aliasSet
                THEN IdSelector(id)
                ELSE selector[i]]]

\* A mutant of ScopeSelector: a selector that holds another #id is prefixed
\* like one that holds no #id, and no warning is pushed.
ScopeSelectorPrefixesForeign(selector, id, aliasSet) ==
    LET scan == ScanSelector(selector, id, aliasSet)
        wasScoped == scan.hadTargetBefore \/ scan.hadAliasBefore
    IN  IF wasScoped \/ scan.children = <<>>
        THEN [selector |-> scan.children, selectorsChanged |-> scan.hadAliasBefore,
              wasScoped |-> wasScoped, warnings |-> <<>>]
        ELSE [selector |-> <<IdSelector(id), Combinator(<<" ">>)>> \o scan.children,
              selectorsChanged |-> TRUE, wasScoped |-> FALSE, warnings |-> <<>>]

\* A mutant of ScopeSelector: the foreign-id test comes before the alias test,
\* so a selector holding an alias and another #id is warned about and its
\* alias components are left as they were.
ScopeSelectorForeignFirst(selector, id, aliasSet) ==
    LET scan == ScanSelector(selector, id, aliasSet)
        wasScoped == scan.hadTargetBefore \/ scan.hadAliasBefore
    IN  IF scan.hasOtherId
        THEN [selector |-> selector, selectorsChanged |-> FALSE,
              wasScoped |-> wasScoped,
              warnings |-> <<ForeignIdWarning(selector)>>]
        ELSE IF wasScoped \/ scan.children = <<>>
        THEN [selector |-> scan.children, selectorsChanged |-> scan.hadAliasBefore,
              wasScoped |-> wasScoped, warnings |-> <<>>]
        ELSE [selector |-> <<IdSelector(id), Combinator(<<" ">>)>> \o scan.children,
              selectorsChanged |-> TRUE, wasScoped |-> FALSE, warnings |-> <<>>]

\* A mutant of ScopeSelector: the prefix is appended instead of prepended.
ScopeSelectorAppends(selector, id, aliasSet) ==
    LET scan == ScanSelector(selector, id, aliasSet)
        wasScoped == scan.hadTargetBefore \/ scan.hadAliasBefore
    IN  IF wasScoped
        THEN [selector |-> scan.children, selectorsChanged |-> scan.hadAliasBefore,
              wasScoped |-> TRUE, warnings |-> <<>>]
        ELSE IF scan.hasOtherId
        THEN [selector |-> scan.children, selectorsChanged |-> FALSE,
              wasScoped |-> FALSE,
              warnings |-> <<ForeignIdWarning(scan.children)>>]
        ELSE IF scan.children = <<>>
        THEN [selector |-> scan.children, selectorsChanged |-> FALSE,
              wasScoped |-> FALSE, warnings |-> <<>>]
        ELSE [selector |-> scan.children \o <<Combinator(<<" ">>), IdSelector(id)>>,
              selectorsChanged |-> TRUE, wasScoped |-> FALSE, warnings |-> <<>>]

\* A mutant of ScopeSelector: a selector that holds the target id or an alias
\* is prefixed like one that holds no #id.
ScopeSelectorPrefixesScoped(selector, id, aliasSet) ==
    LET scan == ScanSelector(selector, id, aliasSet)
        wasScoped == scan.hadTargetBefore \/ scan.hadAliasBefore
    IN  IF ~wasScoped /\ scan.hasOtherId
        THEN [selector |-> scan.children, selectorsChanged |-> FALSE,
              wasScoped |-> FALSE,
              warnings |-> <<ForeignIdWarning(scan.children)>>]
        ELSE IF scan.children = <<>>
        THEN [selector |-> scan.children, selectorsChanged |-> FALSE,
              wasScoped |-> FALSE, warnings |-> <<>>]
        ELSE [selector |-> <<IdSelector(id), Combinator(<<" ">>)>> \o scan.children,
              selectorsChanged |-> TRUE, wasScoped |-> wasScoped,
              warnings |-> <<>>]

\* The body of node.prelude.children.forEach for one selector: the selector it
\* leaves, whether it set selectorsChanged, wasScoped, and the warnings pushed.
ScopeSelector(selector, id, aliasSet) ==
    LET scan == ScanSelector(selector, id, aliasSet)
        wasScoped == scan.hadTargetBefore \/ scan.hadAliasBefore
    IN  IF wasScoped
        THEN [selector |-> scan.children, selectorsChanged |-> scan.hadAliasBefore,
              wasScoped |-> TRUE, warnings |-> <<>>]
        ELSE IF scan.hasOtherId
        THEN [selector |-> scan.children, selectorsChanged |-> FALSE,
              wasScoped |-> FALSE,
              warnings |-> <<ForeignIdWarning(scan.children)>>]
        ELSE IF scan.children = <<>>
        THEN [selector |-> scan.children, selectorsChanged |-> FALSE,
              wasScoped |-> FALSE, warnings |-> <<>>]
        ELSE [selector |-> <<IdSelector(id), Combinator(<<" ">>)>> \o scan.children,
              selectorsChanged |-> TRUE, wasScoped |-> FALSE, warnings |-> <<>>]

RECURSIVE StripTransitionsSkipsNext(_)
\* A mutant of StripTransitions: removing a node makes the walk step over the
\* node that follows it.
StripTransitionsSkipsNext(decls) ==
    IF decls = <<>> THEN <<>>
    ELSE IF isTransitionProperty(Head(decls).property)
    THEN IF Len(decls) = 1 THEN <<>>
         ELSE <<decls[2]>> \o StripTransitionsSkipsNext(Tail(Tail(decls)))
    ELSE <<Head(decls)>> \o StripTransitionsSkipsNext(Tail(decls))

RECURSIVE StripTransitions(_)
\* The walk over the declarations of one block: list.remove(item) for every
\* transition declaration; the others stay in order.
StripTransitions(decls) ==
    IF decls = <<>> THEN <<>>
    ELSE IF isTransitionProperty(Head(decls).property)
    THEN StripTransitions(Tail(decls))
    ELSE <<Head(decls)>> \o StripTransitions(Tail(decls))

\* The enter callback on one Rule node and on the declarations below it.
ScopeRule(rule, id, aliasSet) ==
    LET decls == StripTransitions(rule.decls)
        stripped == decls # rule.decls
        done == [i \in 1..Len(rule.selectors) |->
                    ScopeSelector(rule.selectors[i], id, aliasSet)]
        n == Len(rule.selectors)
    IN  IF rule.prelude # "SelectorList"
        THEN [rule |-> [rule EXCEPT !.decls = decls],
              selectorsChanged |-> FALSE, transitionsStripped |-> stripped,
              allScoped |-> TRUE, warnings |-> <<>>]
        ELSE [rule |-> [prelude |-> rule.prelude,
                        selectors |-> [i \in 1..n |-> done[i].selector],
                        decls |-> decls],
              selectorsChanged |-> \E i \in 1..n : done[i].selectorsChanged,
              transitionsStripped |-> stripped,
              allScoped |-> \A i \in 1..n : done[i].wasScoped,
              warnings |-> Cat([i \in 1..n |-> done[i].warnings])]

\* A mutant of prefixCssSelectors: a text on which parse throws is taken for a
\* sheet without rules.
prefixCssSelectorsSwallowsFailure(css, id, aliases) ==
    LET aliasSet == AliasSet(aliases, id)
        n == Len(css.rules)
        done == [i \in 1..n |-> ScopeRule(css.rules[i], id, aliasSet)]
        selectorsChanged == \E i \in 1..n : done[i].selectorsChanged
        transitionsStripped == \E i \in 1..n : done[i].transitionsStripped
    IN  [css |-> generate([i \in 1..n |-> done[i].rule]),
         changed |-> selectorsChanged \/ transitionsStripped,
         selectorsChanged |-> selectorsChanged,
         transitionsStripped |-> transitionsStripped,
         allScoped |-> \A i \in 1..n : done[i].allScoped,
         warnings |-> Cat([i \in 1..n |-> done[i].warnings])]

prefixCssSelectors(css, id, aliases) ==
    IF css.kind = "bad"
    THEN [css |-> css, changed |-> FALSE, selectorsChanged |-> FALSE,
          transitionsStripped |-> FALSE, allScoped |-> FALSE,
          warnings |-> <<ParseFailedWarning>>]
    ELSE
        LET aliasSet == AliasSet(aliases, id)
            n == Len(css.rules)
            done == [i \in 1..n |-> ScopeRule(css.rules[i], id, aliasSet)]
            selectorsChanged == \E i \in 1..n : done[i].selectorsChanged
            transitionsStripped == \E i \in 1..n : done[i].transitionsStripped
        IN  [css |-> generate([i \in 1..n |-> done[i].rule]),
             changed |-> selectorsChanged \/ transitionsStripped,
             selectorsChanged |-> selectorsChanged,
             transitionsStripped |-> transitionsStripped,
             allScoped |-> \A i \in 1..n : done[i].allScoped,
             warnings |-> Cat([i \in 1..n |-> done[i].warnings])]

(***************************************************************************)
(* Inline styles                                                           *)
(*                                                                         *)
(* The value of a style attribute is [has, decls, raw, bad]: its            *)
(* declarations [property, value] in order, whether the text is as its     *)
(* author wrote it (raw) or as generate prints it, and whether parse       *)
(* throws on it (bad).  A value with no declaration is blank.              *)
(***************************************************************************)

NoStyle == [has |-> FALSE, decls |-> <<>>, raw |-> FALSE, bad |-> FALSE]

StyleAttr(decls) == [has |-> TRUE, decls |-> decls, raw |-> TRUE, bad |-> FALSE]

BadStyleAttr(decls) == [has |-> TRUE, decls |-> decls, raw |-> TRUE, bad |-> TRUE]

\* A value is [text, n]: n is the number the text holds, 0 when it holds none.
Decl(property, value) ==
    [property |-> property, value |-> [text |-> value, n |-> 0]]

\* What /(-[a-z]+-)?transition(-[a-z-]+)?\s*:/i accepts as a whole property.
RegexTransitionProperty(property) ==
    LET p == StripVendorPrefix(ToLower(property))
    IN  /\ p # <<>>
        /\ p[1] = "transition"
        /\ \/ Len(p) = 1
           \/ /\ Len(p) >= 3
              /\ p[2] = "-"
              /\ \A i \in 3..Len(p) : p[i] \in LowerWords \cup {"-"}

RECURSIVE RegexStrip(_, _)
\* The first replace of the catch branch.  A match starts at the start of the
\* text or at the ';' before a declaration and takes the ';' after it, so the
\* declaration that follows a removed one is not matched.
RegexStrip(decls, prevRemoved) ==
    IF decls = <<>> THEN <<>>
    ELSE IF ~prevRemoved /\ RegexTransitionProperty(Head(decls).property)
    THEN RegexStrip(Tail(decls), TRUE)
    ELSE <<Head(decls)>> \o RegexStrip(Tail(decls), FALSE)

stripTransitionFromInlineStyle(styleValue) ==
    IF styleValue.decls = <<>>
    THEN [style |-> styleValue, changed |-> FALSE]
    ELSE IF ~styleValue.bad
    THEN LET next == StripTransitions(styleValue.decls)
         IN  [style |-> [has |-> TRUE, decls |-> next, raw |-> FALSE, bad |-> FALSE],
              changed |-> next # styleValue.decls]
    ELSE LET next == RegexStrip(styleValue.decls, FALSE)
         IN  [style |-> [styleValue EXCEPT !.decls = next],
              changed |-> next # styleValue.decls]

(***************************************************************************)
(* Level rects                                                             *)
(*                                                                         *)
(* A number is an integer count of 1/10000: 10000 is 1.  A numeric         *)
(* attribute is [has, num, n]: num says parseFloat yields a finite number. *)
(* Seconds are [kind, n] with kind "num", "nan" or "inf".                  *)
(***************************************************************************)

NoNum == [has |-> FALSE, num |-> FALSE, n |-> 0]

Num(n) == [has |-> TRUE, num |-> TRUE, n |-> n]

NotNum == [has |-> TRUE, num |-> FALSE, n |-> 0]

Seconds(n) == [kind |-> "num", n |-> n]

LEVEL_RECT_IDS == <<"level", "level1", "level_1", "level2">>

DEFAULT_LEVEL_SECONDS == 5

\* Math.round(value * 1000) / 1000
RoundMillis(n) == ((n + 5) \div 10) * 10

formatSvgNumber(n) == RoundMillis(n)

formatCssSeconds(n) == RoundMillis(n)

\* appendInlineStyle, on the declarations
appendInlineStyle(styleValue, declaration) ==
    [has |-> TRUE, decls |-> Append(styleValue.decls, declaration),
     raw |-> styleValue.raw, bad |-> styleValue.bad]

NoTransform == [has |-> FALSE, fns |-> <<>>]

Rotate180(cx, cy) == [fn |-> "rotate", deg |-> 180, cx |-> cx, cy |-> cy]

\* A mutant of ensureLevelRectTransform: the rotation is appended without
\* looking for it in the existing value.
ensureLevelRectTransformAlwaysAppends(rect) ==
    LET x == IF rect.x.num THEN rect.x.n ELSE 0
        y == IF rect.y.num THEN rect.y.n ELSE 0
    IN  IF ~rect.width.num \/ ~rect.height.num
        THEN [rect |-> rect, changed |-> FALSE]
        ELSE LET cx == x + rect.width.n \div 2
                 cy == y + rect.height.n \div 2
                 rotate == Rotate180(formatSvgNumber(cx), formatSvgNumber(cy))
             IN  [rect |-> [rect EXCEPT !.transform =
                              [has |-> TRUE,
                               fns |-> Append(rect.transform.fns, rotate)]],
                  changed |-> TRUE]

\* The rect after ensureLevelRectTransform, and the value it returns.
ensureLevelRectTransform(rect) ==
    LET x == IF rect.x.num THEN rect.x.n ELSE 0
        y == IF rect.y.num THEN rect.y.n ELSE 0
    IN  IF ~rect.width.num \/ ~rect.height.num
        THEN [rect |-> rect, changed |-> FALSE]
        ELSE LET cx == x + rect.width.n \div 2
                 cy == y + rect.height.n \div 2
                 rotate == Rotate180(formatSvgNumber(cx), formatSvgNumber(cy))
                 existing == rect.transform.fns
             IN  IF \E i \in 1..Len(existing) : existing[i] = rotate
                 THEN [rect |-> rect, changed |-> FALSE]
                 ELSE [rect |-> [rect EXCEPT !.transform =
                                    [has |-> TRUE, fns |-> Append(existing, rotate)]],
                       changed |-> TRUE]

LevelTransitionDecl(seconds) ==
    [property |-> <<"transition">>,
     value |-> [text |-> "height <n>s", n |-> formatCssSeconds(seconds.n)]]

\* A mutant of ensureLevelRectTransitionInlineStyle: the declaration replaces
\* the style attribute.
ensureLevelRectTransitionInlineStyleReplaces(rect, seconds) ==
    IF seconds.kind # "num" \/ seconds.n <= 0
    THEN [rect |-> rect, changed |-> FALSE]
    ELSE [rect |-> [rect EXCEPT !.style = StyleAttr(<<LevelTransitionDecl(seconds)>>)],
          changed |-> TRUE]

\* The rect after ensureLevelRectTransitionInlineStyle, and the value it returns.
ensureLevelRectTransitionInlineStyle(rect, seconds) ==
    IF seconds.kind # "num" \/ seconds.n <= 0
    THEN [rect |-> rect, changed |-> FALSE]
    ELSE [rect |-> [rect EXCEPT !.style =
                       appendInlineStyle(rect.style, LevelTransitionDecl(seconds))],
          changed |-> TRUE]

\* options.levelTransitionSeconds?.[rectId] ?? 5
SecondsFor(levelTransitionSeconds, rectId) ==
    IF levelTransitionSeconds[rectId].has
    THEN levelTransitionSeconds[rectId].v
    ELSE Seconds(DEFAULT_LEVEL_SECONDS * 10000)

\* A mutant of FindRect: the tag name is not looked at.
FindRectAnyTag(elems, rectId) ==
    LET hits == {i \in 1..Len(elems) : elems[i].id = rectId}
    IN  IF hits = {} THEN 0 ELSE CHOOSE i \in hits : \A j \in hits : i <= j

\* svg.querySelector(`rect#${rectId}`): the index of the first rect with that
\* id among the descendants, or 0.
FindRect(elems, rectId) ==
    LET hits == {i \in 1..Len(elems) : elems[i].tag = "rect" /\ elems[i].id = rectId}
    IN  IF hits = {} THEN 0 ELSE CHOOSE i \in hits : \A j \in hits : i <= j

RECURSIVE SelectIds(_, _)
\* LEVEL_RECT_IDS.filter(...), order kept
SelectIds(ids, elems) ==
    IF ids = <<>> THEN <<>>
    ELSE IF FindRect(elems, Head(ids)) # 0
    THEN <<Head(ids)>> \o SelectIds(Tail(ids), elems)
    ELSE SelectIds(Tail(ids), elems)

\* The body of rectIds.forEach for the rect at index k: both enhancements,
\* the transform first.
EnhanceStyle(elems, k, t, seconds) ==
    LET u == ensureLevelRectTransitionInlineStyle(t.rect, seconds)
    IN  [elems |-> [elems EXCEPT ![k] = u.rect],
         changed |-> t.changed \/ u.changed]

EnhanceRect(elems, k, seconds) ==
    EnhanceStyle(elems, k, ensureLevelRectTransform(elems[k]), seconds)

\* changed = ... || changed, over the rects that follow
ThenRest(first, rest) ==
    [elems |-> rest.elems, changed |-> first.changed \/ rest.changed]

RECURSIVE EnhanceRects(_, _, _)

\* The rects after the first, given what the first one's enhancement left.
EnhanceRestFrom(rectIds, levelTransitionSeconds, first) ==
    ThenRest(first, EnhanceRects(Tail(rectIds), first.elems, levelTransitionSeconds))

\* rectIds.forEach(...): the elements after it and whether changed was set.
EnhanceRects(rectIds, elems, levelTransitionSeconds) ==
    IF rectIds = <<>> THEN [elems |-> elems, changed |-> FALSE]
    ELSE EnhanceRestFrom(rectIds, levelTransitionSeconds,
            EnhanceRect(elems, FindRect(elems, Head(rectIds)),
                        SecondsFor(levelTransitionSeconds, Head(rectIds))))

WithRectIds(rectIds, done) ==
    [elems |-> done.elems, changed |-> done.changed, rectIds |-> rectIds]

applyLevelEnhancements(elems, levelTransitionSeconds) ==
    WithRectIds(SelectIds(LEVEL_RECT_IDS, elems),
                EnhanceRects(SelectIds(LEVEL_RECT_IDS, elems), elems,
                             levelTransitionSeconds))

(***************************************************************************)
(* The document                                                            *)
(*                                                                         *)
(* An SVG text is [wellFormed, prolog, rootTag, id, style, class, styles,  *)
(* elems]: whether it parses as XML, whether something (an XML             *)
(* declaration, a doctype, a comment) stands outside the root element, the *)
(* root's tag name and attributes, the texts of the style elements in      *)
(* document order and the other descendants of the root in document order. *)
(***************************************************************************)

\* String.prototype.toLowerCase on a tag name.
ToLowerTag(t) == IF t = "SVG" THEN "svg" ELSE t

\* Array.prototype.sort on class names: the names of the model in code-unit
\* order.
ClassOrder == << <<"cls-a">>, <<"cls-b">>, <<"png">> >>

RECURSIVE SortedFrom(_, _)
SortedFrom(order, set) ==
    IF order = <<>> THEN <<>>
    ELSE IF Head(order) \in set
    THEN <<Head(order)>> \o SortedFrom(Tail(order), set)
    ELSE SortedFrom(Tail(order), set)

\* content.match(/\.[A-Za-z0-9_-]+/g): the class selectors of the text and
\* the '.name' tokens in its comments.
LexicalClasses(text) ==
    UNION {UNION {{c.name : c \in {d \in Range(sel) : d.type = "ClassSelector"}} :
                    sel \in Range(rule.selectors)} :
              rule \in Range(text.rules)}
    \cup text.comments

\* XMLSerializer.serializeToString(svg): the root element alone, well formed.
Serialize(doc) == [doc EXCEPT !.prolog = FALSE]

\* A mutant of FailureResult: processed is the parsed document printed again,
\* not the input.
FailureResultSerialized(error, svgContent) ==
    [ok |-> FALSE, error |-> error, svgId |-> <<>>, generatedId |-> FALSE,
     scopedBefore |-> FALSE, scopedAfter |-> FALSE, changed |-> FALSE,
     processed |-> Serialize(svgContent), classes |-> <<>>, warnings |-> <<>>,
     levelRects |-> <<>>]

FailureResult(error, svgContent) ==
    [ok |-> FALSE, error |-> error, svgId |-> <<>>, generatedId |-> FALSE,
     scopedBefore |-> FALSE, scopedAfter |-> FALSE, changed |-> FALSE,
     processed |-> svgContent, classes |-> <<>>, warnings |-> <<>>,
     levelRects |-> <<>>]

\* The three error messages (the source words them in Chinese).
PARSE_ERROR == "cannot parse SVG"

NO_ROOT_ERROR == "no <svg> root found"

EMPTY_ID_ERROR == "id is empty and cannot be auto-generated"

\* The four names the alias list is built from, in the order of the array
\* literal.
AliasCandidates(currentId, sanitizedCurrentId, desiredId) ==
    <<currentId, sanitizedCurrentId, OrEmpty(desiredId),
      IF desiredId.has /\ desiredId.v # <<>> THEN sanitizeId(desiredId.v) ELSE <<>>>>

RECURSIVE Dedup(_, _)
\* Array.from(new Set(list)): first occurrences, in order.
Dedup(list, seen) ==
    IF list = <<>> THEN <<>>
    ELSE IF Head(list) \in seen THEN Dedup(Tail(list), seen)
    ELSE <<Head(list)>> \o Dedup(Tail(list), seen \cup {Head(list)})

\* aliasIds of scopeSvgContent
AliasIds(currentId, sanitizedCurrentId, desiredId, targetId) ==
    LET all == AliasCandidates(currentId, sanitizedCurrentId, desiredId)
        NonEmpty(name) == name # <<>>
        NotTarget(name) == name # targetId
    IN  Dedup(SelectSeq(SelectSeq(all, NonEmpty), NotTarget), {})

\* A mutant of ScopeStyleNode: scopedBefore is that of the blocks that
\* follow, whatever this block's allScoped is.
ScopeStyleNodeForgetsBlock(content, prefixResult, rest) ==
    [styles |->
        <<IF prefixResult.changed THEN prefixResult.css ELSE content>>
        \o rest.styles,
     scopedBefore |-> rest.scopedBefore,
     scopedAfter |->
        (prefixResult.allScoped \/ prefixResult.selectorsChanged)
        /\ rest.scopedAfter,
     changed |-> prefixResult.changed \/ rest.changed,
     classes |-> LexicalClasses(content) \cup rest.classes,
     warnings |-> prefixResult.warnings \o rest.warnings]

\* The body of styleNodes.forEach for one non-blank style element: rest is
\* what the elements after it add, prefixResult what prefixCssSelectors
\* returned for this one.
ScopeStyleNode(content, prefixResult, rest) ==
    [styles |->
        <<IF prefixResult.changed THEN prefixResult.css ELSE content>>
        \o rest.styles,
     scopedBefore |-> prefixResult.allScoped /\ rest.scopedBefore,
     scopedAfter |->
        (prefixResult.allScoped \/ prefixResult.selectorsChanged)
        /\ rest.scopedAfter,
     changed |-> prefixResult.changed \/ rest.changed,
     classes |-> LexicalClasses(content) \cup rest.classes,
     warnings |-> prefixResult.warnings \o rest.warnings]

\* A style element whose text is blank is skipped.
SkipStyleNode(content, rest) == [rest EXCEPT !.styles = <<content>> \o rest.styles]

RECURSIVE ScopeStyleNodes(_, _, _)
\* styleNodes.forEach(...): the texts of the style elements after it, and
\* what it adds to scopedBefore, scopedAfter, changed, classes and warnings.
ScopeStyleNodes(styles, targetId, aliasIds) ==
    IF styles = <<>>
    THEN [styles |-> <<>>, scopedBefore |-> TRUE, scopedAfter |-> TRUE,
          changed |-> FALSE, classes |-> {}, warnings |-> <<>>]
    ELSE IF Head(styles).kind = "blank"
    THEN SkipStyleNode(Head(styles),
                       ScopeStyleNodes(Tail(styles), targetId, aliasIds))
    ELSE ScopeStyleNode(Head(styles),
                        prefixCssSelectors(Head(styles), targetId, aliasIds),
                        ScopeStyleNodes(Tail(styles), targetId, aliasIds))

\* The forEach over svg.querySelectorAll('[style]') for one element whose
\* style attribute is not blank: stripped is what
\* stripTransitionFromInlineStyle returned for it.
ApplyStripped(node, stripped) ==
    IF ~stripped.changed
    THEN [node |-> node, changed |-> FALSE]
    ELSE IF stripped.style.decls = <<>>
    THEN [node |-> [node EXCEPT !.style = NoStyle], changed |-> TRUE]
    ELSE [node |-> [node EXCEPT !.style = stripped.style], changed |-> TRUE]

StripElementStyle(node) ==
    IF ~node.style.has \/ node.style.decls = <<>>
    THEN [node |-> node, changed |-> FALSE]
    ELSE ApplyStripped(node, stripTransitionFromInlineStyle(node.style))

RECURSIVE StripInlineStyles(_)
\* Array.from(svg.querySelectorAll('[style]')).forEach(...): the descendants
\* of the root after it, and whether it set changed.
StripInlineStyles(elems) ==
    IF elems = <<>> THEN [elems |-> <<>>, changed |-> FALSE]
    ELSE LET first == StripElementStyle(Head(elems))
             rest == StripInlineStyles(Tail(elems))
         IN  [elems |-> <<first.node>> \o rest.elems,
              changed |-> first.changed \/ rest.changed]

\* The forEach over svg.querySelectorAll('[class]'): the class tokens of the
\* descendants of the root.
ElementClasses(elems) == UNION {Range(elems[i].class) : i \in 1..Len(elems)}

\* A mutant of TargetId: the current id wins over the desired id.
TargetIdCurrentFirst(nextIdCandidate, sanitizedCurrentId, fileNameDerivedId, token) ==
    IF sanitizedCurrentId # <<>> THEN sanitizedCurrentId
    ELSE IF nextIdCandidate # <<>> THEN nextIdCandidate
    ELSE IF fileNameDerivedId # <<>> THEN fileNameDerivedId
    ELSE generateSvgId(token)

\* nextIdCandidate || sanitizedCurrentId || fileNameDerivedId || generateSvgId()
TargetId(nextIdCandidate, sanitizedCurrentId, fileNameDerivedId, token) ==
    IF nextIdCandidate # <<>> THEN nextIdCandidate
    ELSE IF sanitizedCurrentId # <<>> THEN sanitizedCurrentId
    ELSE IF fileNameDerivedId # <<>> THEN fileNameDerivedId
    ELSE generateSvgId(token)

\* The ids scopeSvgContent works with, once targetId is known.
IdsWithTarget(currentId, sanitizedCurrentId, desiredId, generatedId, targetId) ==
    [currentId |-> currentId,
     targetId |-> targetId,
     generatedId |-> generatedId,
     aliasIds |-> AliasIds(currentId, sanitizedCurrentId, desiredId, targetId)]

IdsFromCandidates(currentId, sanitizedCurrentId, nextIdCandidate, fileNameDerivedId, options, token) ==
    IdsWithTarget(currentId, sanitizedCurrentId, options.desiredId,
                  options.forceNewId
                      \/ (sanitizedCurrentId = <<>> /\ nextIdCandidate = <<>>),
                  TargetId(nextIdCandidate, sanitizedCurrentId,
                           fileNameDerivedId, token))

IdsFromCurrent(currentId, options, suffix, token) ==
    IdsFromCandidates(
        currentId,
        IF options.forceNewId THEN <<>> ELSE sanitizeId(currentId),
        IF ~options.forceNewId /\ options.desiredId.has
              /\ options.desiredId.v # <<>>
        THEN sanitizeId(options.desiredId.v)
        ELSE <<>>,
        deriveIdFromFileName(options.fileName, suffix),
        options, token)

\* currentId, sanitizedCurrentId, nextIdCandidate, fileNameDerivedId,
\* generatedId, targetId and aliasIds of scopeSvgContent.
ResolveIds(svgContent, options, suffix, token) ==
    IdsFromCurrent(Trim(OrEmpty(svgContent.id)), options, suffix, token)

\* A mutant of SuccessResult: what applyLevelEnhancements changed is not
\* counted in changed.
SuccessResultForgetsLevel(svgContent, ids, styled, inline, levelEnhancements) ==
    [ok |-> TRUE,
     error |-> "",
     svgId |-> ids.targetId,
     generatedId |-> ids.generatedId,
     scopedBefore |-> styled.scopedBefore,
     scopedAfter |-> styled.scopedAfter,
     changed |->
        ids.currentId # ids.targetId \/ styled.changed \/ inline.changed,
     processed |->
        Serialize([svgContent EXCEPT
            !.id = IF ids.currentId # ids.targetId
                   THEN Present(ids.targetId) ELSE @,
            !.styles = styled.styles,
            !.elems = levelEnhancements.elems]),
     classes |->
        SortedFrom(ClassOrder,
                   styled.classes \cup ElementClasses(levelEnhancements.elems)),
     warnings |-> styled.warnings,
     levelRects |-> levelEnhancements.rectIds]

\* The result of a call that got past the id: styled is what the pass over
\* the style elements did, inline the pass over the inline styles,
\* levelEnhancements what applyLevelEnhancements returned.
SuccessResult(svgContent, ids, styled, inline, levelEnhancements) ==
    [ok |-> TRUE,
     error |-> "",
     svgId |-> ids.targetId,
     generatedId |-> ids.generatedId,
     scopedBefore |-> styled.scopedBefore,
     scopedAfter |-> styled.scopedAfter,
     changed |->
        ids.currentId # ids.targetId \/ styled.changed \/ inline.changed
        \/ levelEnhancements.changed,
     processed |->
        Serialize([svgContent EXCEPT
            !.id = IF ids.currentId # ids.targetId
                   THEN Present(ids.targetId) ELSE @,
            !.styles = styled.styles,
            !.elems = levelEnhancements.elems]),
     classes |->
        SortedFrom(ClassOrder,
                   styled.classes \cup ElementClasses(levelEnhancements.elems)),
     warnings |-> styled.warnings,
     levelRects |-> levelEnhancements.rectIds]

ScopeAfterInline(svgContent, options, ids, styled, inline) ==
    SuccessResult(svgContent, ids, styled, inline,
                  applyLevelEnhancements(inline.elems,
                                         options.levelTransitionSeconds))

ScopeWithIds(svgContent, options, ids) ==
    IF ids.targetId = <<>>
    THEN FailureResult(EMPTY_ID_ERROR, svgContent)
    ELSE ScopeAfterInline(svgContent, options, ids,
                          ScopeStyleNodes(svgContent.styles, ids.targetId,
                                          ids.aliasIds),
                          StripInlineStyles(svgContent.elems))

\* scopeSvgContent(svgContent, options); suffix and token are what the two
\* uses of Math.random() yield.
scopeSvgContent(svgContent, options, suffix, token) ==
    IF ~svgContent.wellFormed
    THEN FailureResult(PARSE_ERROR, svgContent)
    ELSE IF ToLowerTag(svgContent.rootTag) # "svg"
    THEN FailureResult(NO_ROOT_ERROR, svgContent)
    ELSE ScopeWithIds(svgContent, options,
                      ResolveIds(svgContent, options, suffix, token))

(***************************************************************************)
(* Inputs                                                                  *)
(***************************************************************************)

\* Bounds of the model.
MaxSelectors == 2

MaxStyleBlocks == 2

MaxElems == 2

\* The sequences over S of length 1 to n.
SeqsUpTo(S, n) == UNION {[1..k -> S] : k \in 1..n}

IdA == <<"a">>

IdB == <<"b">>

IdF == <<"f">>

ClsA == ClassSelector(<<"cls-a">>)

ClsB == ClassSelector(<<"cls-b">>)

Descendant == Combinator(<<" ">>)

SelectorShapes ==
    { <<>>,
      <<ClsA>>,
      <<ClsA, Combinator(<<">">>), ClsB>>,
      <<IdSelector(IdA), Descendant, ClsA>>,
      <<IdSelector(IdB), Descendant, ClsA>>,
      <<IdSelector(IdF), Descendant, ClsB>>,
      <<IdSelector(IdB), Descendant, IdSelector(IdF)>>,
      <<IdSelector(IdA), Descendant, IdSelector(IdF)>>,
      <<IdSelector(IdB), ClsA, Descendant, IdSelector(IdB)>> }

FillRed == Decl(<<"fill">>, "red")

TransitionHeight == Decl(<<"transition">>, "height 2s")

WebkitTransitionDelay == Decl(<<"-", "WEBKIT", "-", "Transition", "-", "delay">>, "1s")

\* 'transitions' starts with 'transition' but not with 'transition-'.
TransitionsNearMiss == Decl(<<"transitions">>, "none")

\* A custom property: '--' is no vendor prefix.
CustomTransition == Decl(<<"-", "-", "transition">>, "1s")

DeclLists ==
    { <<>>,
      <<FillRed>>,
      <<TransitionHeight, WebkitTransitionDelay, FillRed>>,
      <<TransitionsNearMiss, TransitionHeight, WebkitTransitionDelay,
        TransitionHeight, CustomTransition, FillRed>> }

Rule(selectors, decls) ==
    [prelude |-> "SelectorList", selectors |-> selectors, decls |-> decls]

\* A rule whose prelude css-tree could not parse as a selector list.
RawRule(decls) == [prelude |-> "Raw", selectors |-> <<>>, decls |-> decls]

Rules ==
    {Rule(sels, decls) : sels \in SeqsUpTo(SelectorShapes, MaxSelectors),
                         decls \in DeclLists}
    \cup {RawRule(<<TransitionHeight>>)}

PairRules ==
    { Rule(<< <<ClsA>> >>, <<FillRed>>),
      Rule(<< <<IdSelector(IdF), Descendant, ClsB>> >>, <<TransitionHeight>>),
      Rule(<< <<IdSelector(IdB), Descendant, ClsA>>, <<>> >>, <<>>),
      Rule(<< <<IdSelector(IdA), ClsB>> >>, <<FillRed>>) }

BlankText == [kind |-> "blank", rules |-> <<>>, raw |-> TRUE, comments |-> {}]

BadText ==
    [kind |-> "bad", rules |-> <<>>, raw |-> TRUE, comments |-> {<<"cls-b">>}]

Sheets ==
    {CssText(<<r>>) : r \in Rules}
    \cup {CssText(<<p, q>>) : p \in PairRules, q \in PairRules}
    \cup {CssText(<<>>), BadText}

PrefixArgs ==
    { <<IdA, <<>>>>,
      <<IdA, <<IdB>>>>,
      <<IdA, <<IdB, <<>>, IdA, IdB>>>>,
      <<IdB, <<IdA, IdF>>>> }

(***************************************************************************)
(* PrefixSpec: prefixCssSelectors applied to a sheet                       *)
(***************************************************************************)

IdleScope ==
    /\ svgText = "<unused>"
    /\ opts = "<unused>"
    /\ r1 = NoResult
    /\ r2 = NoResult
    /\ pc = "idle"

IdlePrefix ==
    /\ sheet = "<unused>"
    /\ sheetId = <<>>
    /\ sheetAliases = <<>>
    /\ pres = NoResult
    /\ pres2 = NoResult
    /\ ppc = "idle"

IdleSanitize ==
    /\ idIn = <<>>
    /\ idOut = <<>>
    /\ spc = "idle"

\* null, where the source holds an entry id or null
NoEntry == 0

IdleApp ==
    /\ entries = <<>>
    /\ activeEntryId = NoEntry
    /\ copiedEntryId = NoEntry
    /\ readers = {}
    /\ copying = {}
    /\ ops = 0

PrefixInit ==
    /\ IdleScope
    /\ IdleSanitize
    /\ IdleApp
    /\ sheet \in Sheets
    /\ \E a \in PrefixArgs : sheetId = a[1] /\ sheetAliases = a[2]
    /\ pres = NoResult
    /\ pres2 = NoResult
    /\ ppc = "start"

\* prefixCssSelectors(sheet, sheetId, sheetAliases)
Prefix ==
    /\ ppc = "start"
    /\ pres' = prefixCssSelectors(sheet, sheetId, sheetAliases)
    /\ ppc' = "done"
    /\ UNCHANGED <<sheet, sheetId, sheetAliases, pres2>>
    /\ UNCHANGED scopeVars
    /\ UNCHANGED sanitizeVars
    /\ UNCHANGED appVars

\* prefixCssSelectors(pres.css, sheetId, sheetAliases)
Reprefix ==
    /\ ppc = "done"
    /\ pres2' = prefixCssSelectors(pres.css, sheetId, sheetAliases)
    /\ ppc' = "again"
    /\ UNCHANGED <<sheet, sheetId, sheetAliases, pres>>
    /\ UNCHANGED scopeVars
    /\ UNCHANGED sanitizeVars
    /\ UNCHANGED appVars

PrefixNext == Prefix \/ Reprefix

PrefixSpec == PrefixInit /\ [][PrefixNext]_vars

(***************************************************************************)
(* SanitizeSpec: sanitizeId applied to a value                             *)
(***************************************************************************)

MaxIdLen == 3

\* Letters, ASCII digits, a compatibility digit, a digit outside 0-9, the two
\* safe marks, and two characters ID_SAFE_PATTERN matches.
IdChars == {"a", "s", "1", "sup1", "ar3", "_", "-", " ", "."}

IdValues == {<<>>} \cup SeqsUpTo(IdChars, MaxIdLen)

SanitizeInit ==
    /\ IdleScope
    /\ IdlePrefix
    /\ IdleApp
    /\ idIn \in IdValues
    /\ idOut = <<>>
    /\ spc = "start"

\* sanitizeId(idIn)
Sanitize ==
    /\ spc = "start"
    /\ idOut' = sanitizeId(idIn)
    /\ spc' = "done"
    /\ UNCHANGED idIn
    /\ UNCHANGED scopeVars
    /\ UNCHANGED prefixVars
    /\ UNCHANGED appVars

SanitizeNext == Sanitize

SanitizeSpec == SanitizeInit /\ [][SanitizeNext]_vars

(***************************************************************************)
(* Spec: scopeSvgContent applied to a document, then applied again to its  *)
(* own output with desiredId = the svgId it returned                       *)
(***************************************************************************)

Element(tag, id, style) ==
    [tag |-> tag, id |-> id, style |-> style, class |-> <<>>,
     transform |-> NoTransform, x |-> NoNum, y |-> NoNum,
     width |-> NoNum, height |-> NoNum]

\* transform="translate(1 0)"
Translate == [fn |-> "translate", deg |-> 0, cx |-> 10000, cy |-> 0]

Elements ==
    { [Element("g", "", StyleAttr(<<FillRed, TransitionHeight>>))
          EXCEPT !.class = << <<"cls-b">>, <<"cls-a">> >>],
      Element("path", "", StyleAttr(<<TransitionHeight, WebkitTransitionDelay>>)),
      [Element("rect", "level", NoStyle)
          EXCEPT !.width = Num(100000), !.height = Num(200000)],
      [Element("rect", "level1", StyleAttr(<<FillRed>>))
          EXCEPT !.width = NotNum, !.height = Num(200000)],
      [Element("g", "level", NoStyle)
          EXCEPT !.width = Num(100000), !.height = Num(200000)],
      [Element("rect", "level2",
               BadStyleAttr(<<TransitionHeight, WebkitTransitionDelay>>))
          EXCEPT !.x = Num(10000), !.width = Num(30000), !.height = Num(4),
                 !.transform = [has |-> TRUE, fns |-> <<Translate>>]],
      [Element("rect", "level_1", StyleAttr(<<TransitionHeight, FillRed>>))
          EXCEPT !.width = Num(100000), !.height = Num(200000),
                 !.transform =
                    [has |-> TRUE, fns |-> <<Rotate180(50000, 100000), Translate>>]] }

\* A text that holds one comment, '/* .png */', and no rule.
CommentText == [CssText(<<>>) EXCEPT !.comments = {<<"png">>}]

StyleBlocks ==
    { BlankText,
      BadText,
      CssText(<<Rule(<< <<ClsA>> >>, <<FillRed, TransitionHeight>>)>>),
      CssText(<<Rule(<< <<IdSelector(IdA), Descendant, ClsA>> >>, <<FillRed>>)>>),
      CssText(<<Rule(<< <<IdSelector(IdF), Descendant, ClsB>>, <<ClsA>> >>, <<>>)>>),
      CssText(<<Rule(<< <<IdSelector(IdB), Descendant, ClsA>>,
                        <<IdSelector(IdB), Descendant, IdSelector(IdF)>> >>,
                     <<FillRed>>)>>),
      CssText(<<Rule(<< <<>>, <<ClsB>> >>, <<>>)>>),
      CssText(<<RawRule(<<FillRed>>)>>),
      CommentText }

RootIds ==
    { Absent,
      Present(<<"a">>),
      Present(<<" ", "a", " ">>),
      Present(<<"b">>),
      Present(<<"1", "a">>),
      Present(<<" ">>) }

DesiredIds ==
    { Absent,
      Present(<<>>),
      Present(<<"a">>),
      Present(<<"b">>),
      Present(<<"1", " ", "x">>),
      Present(<<"-">>) }

FileNames ==
    { Absent,
      Present(<<"a", ".", "s", "v", "g">>),
      Present(<<".", "s", "v", "g">>),
      Present(<<"1", ".", "a", ".", "g">>) }

\* What Math.floor(Math.random() * 9000 + 1000).toString() can be.
Suffixes == { <<"1", "0", "0", "0">>, <<"9", "9", "9", "9">> }

\* What Math.random().toString(36).slice(2, 10) can be.
Tokens == { <<>>, <<"x">>, <<"0", "a", "9", "x", "b", "f", "g", "s">> }

NoSeconds == [has |-> FALSE, v |-> Seconds(0)]

NoLevelSeconds == [id \in Range(LEVEL_RECT_IDS) |-> NoSeconds]

\* levelTransitionSeconds: nothing, 2, 0, NaN, and 1.2345 with -1 for level1.
LevelSecondsMaps ==
    { NoLevelSeconds,
      [NoLevelSeconds EXCEPT !["level"] = [has |-> TRUE, v |-> Seconds(20000)]],
      [NoLevelSeconds EXCEPT !["level"] = [has |-> TRUE, v |-> Seconds(0)]],
      [NoLevelSeconds EXCEPT !["level"] = [has |-> TRUE, v |-> [kind |-> "nan", n |-> 0]]],
      [NoLevelSeconds EXCEPT !["level"] = [has |-> TRUE, v |-> Seconds(12345)],
                             !["level1"] = [has |-> TRUE, v |-> Seconds(-10000)]] }

Document(id, style, styles, elems) ==
    [wellFormed |-> TRUE, prolog |-> TRUE, rootTag |-> "svg", id |-> id,
     style |-> style, class |-> <<>>, styles |-> styles, elems |-> elems]

Options(desiredId, fileName, forceNewId, levelTransitionSeconds) ==
    [desiredId |-> desiredId, fileName |-> fileName, forceNewId |-> forceNewId,
     levelTransitionSeconds |-> levelTransitionSeconds]

StyleLists == {<<>>} \cup SeqsUpTo(StyleBlocks, MaxStyleBlocks)

ElementLists == {<<>>} \cup SeqsUpTo(Elements, MaxElems)

\* The calls that vary the ids.
IdCalls ==
    { <<Document(id, NoStyle, styles, <<>>),
        Options(desiredId, fileName, forceNewId, NoLevelSeconds)>> :
        id \in RootIds, desiredId \in DesiredIds, fileName \in FileNames,
        forceNewId \in BOOLEAN,
        styles \in {<<>>} \cup SeqsUpTo(StyleBlocks, 1) }

\* The calls that vary the style elements.
StyleCalls ==
    { <<Document(id, NoStyle, styles, <<>>),
        Options(desiredId, Present(<<"a", ".", "s", "v", "g">>), FALSE,
                NoLevelSeconds)>> :
        id \in {Absent, Present(<<"a">>)},
        desiredId \in {Absent, Present(<<"b">>)},
        styles \in StyleLists }

\* The calls that vary the elements and their inline styles.
ElementCalls ==
    { <<Document(Present(<<"a">>), style, styles, elems),
        Options(Absent, Absent, FALSE, levelTransitionSeconds)>> :
        style \in {NoStyle, StyleAttr(<<TransitionHeight>>)},
        styles \in {<<>>, <<CssText(<<Rule(<< <<ClsA>> >>, <<FillRed>>)>>)>>},
        elems \in ElementLists,
        levelTransitionSeconds \in LevelSecondsMaps }

\* The calls on a text that is not an SVG document.
FailingCalls ==
    { <<[Document(id, NoStyle, styles, <<>>)
            EXCEPT !.wellFormed = wellFormed, !.rootTag = rootTag],
        Options(desiredId, Absent, FALSE, NoLevelSeconds)>> :
        id \in {Absent, Present(<<"a">>)},
        styles \in {<<>>, <<CssText(<<Rule(<< <<ClsA>> >>, <<FillRed>>)>>)>>},
        desiredId \in {Absent, Present(<<"b">>)},
        wellFormed \in BOOLEAN,
        rootTag \in {"svg", "SVG", "html"} }

\* The calls that vary the class attributes and the class tokens of the
\* style elements.
ClassCalls ==
    { <<[Document(Present(<<"a">>), NoStyle, styles, elems) EXCEPT !.class = class],
        Options(Absent, Absent, FALSE, NoLevelSeconds)>> :
        class \in {<<>>, << <<"png">> >>, << <<"cls-b">>, <<"png">>, <<"cls-b">> >>},
        styles \in {<<>>, <<BadText>>, <<BlankText, CommentText>>,
                    <<CssText(<<Rule(<< <<ClsB, Descendant, ClsA>> >>, <<FillRed>>)>>),
                      BadText>>},
        elems \in {<<>>} \cup SeqsUpTo({e \in Elements : e.tag = "g"}, MaxElems) }

Calls == IdCalls \cup StyleCalls \cup ElementCalls \cup FailingCalls \cup ClassCalls

Init ==
    /\ IdlePrefix
    /\ IdleSanitize
    /\ IdleApp
    /\ \E c \in Calls : svgText = c[1] /\ opts = c[2]
    /\ r1 = NoResult
    /\ r2 = NoResult
    /\ pc = "start"

\* scopeSvgContent(svgText, opts)
Scope ==
    /\ pc = "start"
    /\ \E suffix \in Suffixes, token \in Tokens :
          r1' = scopeSvgContent(svgText, opts, suffix, token)
    /\ pc' = "scoped"
    /\ UNCHANGED <<svgText, opts, r2>>
    /\ UNCHANGED prefixVars
    /\ UNCHANGED sanitizeVars
    /\ UNCHANGED appVars

\* scopeSvgContent(r1.processed, {desiredId: r1.svgId})
Rescope ==
    /\ pc = "scoped"
    /\ r1.ok
    /\ \E suffix \in Suffixes, token \in Tokens :
          r2' = scopeSvgContent(r1.processed,
                                Options(Present(r1.svgId), Absent, FALSE,
                                        NoLevelSeconds),
                                suffix, token)
    /\ pc' = "rescoped"
    /\ UNCHANGED <<svgText, opts, r1>>
    /\ UNCHANGED prefixVars
    /\ UNCHANGED sanitizeVars
    /\ UNCHANGED appVars

Next == Scope \/ Rescope

Spec == Init /\ [][Next]_vars

(***************************************************************************)
(* The App: the entries and the handlers that change them                  *)
(*                                                                         *)
(* An entry is an SvgEntry.  Its id is a number (generateEntryId yields a  *)
(* value no other entry has); rawContent is [empty, text], empty for '';   *)
(* result is [has, v], has FALSE for null; error is a message or NoError   *)
(* for null.  A file is [name, content].  A reader is [entryId, file]: a   *)
(* FileReader on which readAsText was called and neither onload nor        *)
(* onerror has fired.                                                      *)
(***************************************************************************)

DEFAULT_LEVEL_TRANSITION_SECONDS == 5

\* LEVEL_RECT_IDS of the App: 'level_1' is not in it.
AppLevelRectIds == <<"level", "level1", "level2">>

\* null, where the source holds a message or null
NoError == "<null>"

\* '读取文件时发生错误，请重试。'
READ_ERROR == "cannot read the file"

\* '无法写入剪贴板，请确认浏览器权限后重试。'
CLIPBOARD_ERROR == "cannot write to the clipboard"

\* ''
EmptyText ==
    [wellFormed |-> FALSE, prolog |-> FALSE, rootTag |-> "", id |-> Absent,
     style |-> NoStyle, class |-> <<>>, styles |-> <<>>, elems |-> <<>>]

NoContent == [empty |-> TRUE, text |-> EmptyText]

Content(text) == [empty |-> FALSE, text |-> text]

NullResult == [has |-> FALSE, v |-> FailureResult("", EmptyText)]

Stored(scoped) == [has |-> TRUE, v |-> scoped]

\* entry.result?.ok
ResultOk(entry) == entry.result.has /\ entry.result.v.ok

\* The time a declaration's value holds, as parseCssTimeToSeconds reads the
\* first number followed by s or ms in it: 'height 2s' holds 2, '1s' holds 1,
\* the value applyLevelEnhancements writes holds its number, 'red' and 'none'
\* hold none.
parseCssTimeToSeconds(value) ==
    CASE value.text = "height 2s" -> [has |-> TRUE, v |-> Seconds(20000)]
      [] value.text = "1s" -> [has |-> TRUE, v |-> Seconds(10000)]
      [] value.text = "height <n>s" -> [has |-> TRUE, v |-> Seconds(value.n)]
      [] OTHER -> NoSeconds

\* The index of the first declaration /(^|;)\s*(-[a-z]+-)?name\s*:/i matches,
\* or 0.
FirstNamed(decls, name) ==
    LET hits == {i \in 1..Len(decls) :
                    StripVendorPrefix(ToLower(decls[i].property)) = name}
    IN  IF hits = {} THEN 0 ELSE CHOOSE i \in hits : \A j \in hits : i <= j

\* The time of the first declaration of that name, if there is one and it
\* holds a time.
TimeOfNamed(decls, name) ==
    IF FirstNamed(decls, name) = 0 THEN NoSeconds
    ELSE parseCssTimeToSeconds(decls[FirstNamed(decls, name)].value)

\* transition-duration first, then the transition shorthand; null when
\* neither holds a time.
extractTransitionSecondsFromStyle(styleValue) ==
    IF styleValue.decls = <<>> THEN NoSeconds
    ELSE IF TimeOfNamed(styleValue.decls, <<"transition", "-", "duration">>).has
    THEN TimeOfNamed(styleValue.decls, <<"transition", "-", "duration">>)
    ELSE TimeOfNamed(styleValue.decls, <<"transition">>)

\* result[rectId] = seconds ?? DEFAULT_LEVEL_TRANSITION_SECONDS
SecondsOfRect(rect) ==
    IF extractTransitionSecondsFromStyle(rect.style).has
    THEN extractTransitionSecondsFromStyle(rect.style)
    ELSE [has |-> TRUE, v |-> Seconds(DEFAULT_LEVEL_TRANSITION_SECONDS * 10000)]

\* For each rect id of the App with a rect in the document, the seconds its
\* style holds or 5; the other ids are not set.
extractLevelTransitionSeconds(svgContent) ==
    [id \in Range(LEVEL_RECT_IDS) |->
        IF id \in Range(AppLevelRectIds) /\ FindRect(svgContent.elems, id) # 0
        THEN SecondsOfRect(svgContent.elems[FindRect(svgContent.elems, id)])
        ELSE NoSeconds]

\* { ...a, ...b }
Spread(a, b) == [id \in Range(LEVEL_RECT_IDS) |-> IF b[id].has THEN b[id] ELSE a[id]]

\* { level: 5, level1: 5, level2: 5 }
DefaultEntrySeconds ==
    [id \in Range(LEVEL_RECT_IDS) |->
        IF id \in Range(AppLevelRectIds)
        THEN [has |-> TRUE, v |-> Seconds(DEFAULT_LEVEL_TRANSITION_SECONDS * 10000)]
        ELSE NoSeconds]

\* generateEntryId(): a value no entry has yet (crypto.randomUUID, or a random
\* token whose collisions are taken not to happen); the k-th new entry of a
\* selection gets the k-th number after those in use.
generateEntryId(prev, k) == Len(prev) + k

\* One element of newEntries.
NewEntry(id, fileName) ==
    [id |-> id, fileName |-> fileName, desiredId |-> <<>>,
     levelTransitionSeconds |-> DefaultEntrySeconds, rawContent |-> NoContent,
     result |-> NullResult, error |-> NoError, isProcessing |-> TRUE]

\* prev.find((item) => item.id === entryId): its index, or 0.
FindEntry(prev, entryId) ==
    LET hits == {k \in 1..Len(prev) : prev[k].id = entryId}
    IN  IF hits = {} THEN 0 ELSE CHOOSE k \in hits : \A j \in hits : k <= j

\* prev.map((item) => item.id !== entryId ? item : next)
MapEntry(prev, entryId, next) ==
    [k \in 1..Len(prev) |-> IF prev[k].id # entryId THEN prev[k] ELSE next]

\* What handleApplyLevelTransitions makes of the entry, given what
\* scopeSvgContent returned.
LevelTransitionsApplied(item, scoped) ==
    IF ~scoped.ok
    THEN [item EXCEPT !.result = NullResult, !.error = scoped.error]
    ELSE [item EXCEPT !.result = Stored(scoped), !.error = NoError]

\* The options handleApplyLevelTransitions hands to scopeSvgContent.
LevelTransitionsOptions(entry) ==
    Options(IF ResultOk(entry) THEN Present(entry.result.v.svgId) ELSE Absent,
            Present(entry.fileName), FALSE, entry.levelTransitionSeconds)

\* The updater handleApplyLevelTransitions gives to setEntries.
handleApplyLevelTransitions(prev, entryId, suffix, token) ==
    IF FindEntry(prev, entryId) = 0 \/ prev[FindEntry(prev, entryId)].rawContent.empty
    THEN prev
    ELSE MapEntry(prev, entryId,
            LevelTransitionsApplied(
                prev[FindEntry(prev, entryId)],
                scopeSvgContent(prev[FindEntry(prev, entryId)].rawContent.text,
                                LevelTransitionsOptions(prev[FindEntry(prev, entryId)]),
                                suffix, token)))

\* A mutant of Loaded: the result of scopeSvgContent is stored whether it is
\* ok or not.
LoadedStoresFailure(item, content, entryLevelTransitionSeconds, scoped) ==
    [item EXCEPT !.rawContent = Content(content), !.isProcessing = FALSE,
                 !.desiredId = scoped.svgId, !.result = Stored(scoped),
                 !.error = IF scoped.ok THEN NoError ELSE scoped.error]

\* What reader.onload makes of the entry.
Loaded(item, content, entryLevelTransitionSeconds, scoped) ==
    IF ~scoped.ok
    THEN [item EXCEPT !.rawContent = Content(content), !.isProcessing = FALSE,
                      !.desiredId = <<>>, !.result = NullResult,
                      !.error = scoped.error]
    ELSE [item EXCEPT !.rawContent = Content(content), !.isProcessing = FALSE,
                      !.desiredId = scoped.svgId,
                      !.levelTransitionSeconds =
                          Spread(item.levelTransitionSeconds,
                                 entryLevelTransitionSeconds),
                      !.result = Stored(scoped), !.error = NoError]

\* entryLevelTransitionSeconds of reader.onload
LoadedSeconds(content) ==
    Spread(DefaultEntrySeconds, extractLevelTransitionSeconds(content))

\* reader.onload: the entries after its setEntries.
onload(prev, reader, suffix, token) ==
    [k \in 1..Len(prev) |->
        IF prev[k].id # reader.entryId THEN prev[k]
        ELSE Loaded(prev[k], reader.file.content,
                    LoadedSeconds(reader.file.content),
                    scopeSvgContent(reader.file.content,
                                    Options(Absent, Present(reader.file.name), FALSE,
                                            LoadedSeconds(reader.file.content)),
                                    suffix, token))]

\* A mutant of onerror: every entry is marked, not only the reader's own.
onerrorMarksEveryEntry(prev, reader) ==
    [k \in 1..Len(prev) |->
        [prev[k] EXCEPT !.isProcessing = FALSE, !.error = READ_ERROR]]

\* reader.onerror: the entries after its setEntries.
onerror(prev, reader) ==
    [k \in 1..Len(prev) |->
        IF prev[k].id = reader.entryId
        THEN [prev[k] EXCEPT !.isProcessing = FALSE, !.error = READ_ERROR]
        ELSE prev[k]]

\* What handleApplyId makes of the entry.
IdApplied(item, trimmedDesired, scoped) ==
    IF ~scoped.ok
    THEN [item EXCEPT !.desiredId = trimmedDesired, !.result = NullResult,
                      !.error = scoped.error]
    ELSE [item EXCEPT !.desiredId = scoped.svgId, !.result = Stored(scoped),
                      !.error = NoError]

\* The options handleApplyId hands to scopeSvgContent.
ApplyIdOptions(entry, forceNew) ==
    Options(IF forceNew \/ Trim(entry.desiredId) = <<>>
            THEN Absent ELSE Present(Trim(entry.desiredId)),
            Present(entry.fileName), forceNew, entry.levelTransitionSeconds)

\* The updater handleApplyId gives to setEntries.
handleApplyId(prev, entryId, forceNew, suffix, token) ==
    IF FindEntry(prev, entryId) = 0 \/ prev[FindEntry(prev, entryId)].rawContent.empty
    THEN prev
    ELSE MapEntry(prev, entryId,
            IdApplied(prev[FindEntry(prev, entryId)],
                      Trim(prev[FindEntry(prev, entryId)].desiredId),
                      scopeSvgContent(prev[FindEntry(prev, entryId)].rawContent.text,
                                      ApplyIdOptions(prev[FindEntry(prev, entryId)],
                                                     forceNew),
                                      suffix, token)))

\* shouldForceNew of the button that calls handleApplyId
shouldForceNew(entry) ==
    \/ Trim(entry.desiredId) = <<>>
    \/ Trim(entry.desiredId) = (IF entry.result.has THEN entry.result.v.svgId ELSE <<>>)

\* The catch branch of handleCopy: the entries after its setEntries.
CopyFailure(prev, entryId) ==
    [k \in 1..Len(prev) |->
        IF prev[k].id = entryId THEN [prev[k] EXCEPT !.error = CLIPBOARD_ERROR]
        ELSE prev[k]]

(***************************************************************************)
(* AppSpec: files are selected, their readers call back in any order, and  *)
(* the user works on the active entry with the controls the App renders    *)
(***************************************************************************)

\* Bounds of the model: the entries the list holds at most, and the clicks
\* and edits the user makes at most.
MaxEntries == 2

MaxOps == 2

TransitionDuration == Decl(<<"transition", "-", "duration">>, "1s")

\* a.svg: a root with id 'a' and a level rect whose style holds a time.
FileWithId ==
    [name |-> <<"a", ".", "s", "v", "g">>,
     content |->
        Document(Present(<<"a">>), NoStyle, <<>>,
                 << [Element("rect", "level", StyleAttr(<<FillRed, TransitionHeight>>))
                        EXCEPT !.width = Num(100000), !.height = Num(200000)] >>)]

\* .svg: a root with no id and a level2 rect; the name yields no id, so the
\* id is a random one.
FileWithoutId ==
    [name |-> <<".", "s", "v", "g">>,
     content |->
        Document(Absent, NoStyle, <<>>,
                 << [Element("rect", "level2", StyleAttr(<<TransitionDuration>>))
                        EXCEPT !.width = Num(100000), !.height = Num(200000)] >>)]

\* a.svg again, with a text that is not well-formed.
FileNotWellFormed ==
    [name |-> <<"a", ".", "s", "v", "g">>,
     content |->
        [Document(Absent, NoStyle, <<>>, <<>>) EXCEPT !.wellFormed = FALSE]]

\* The files the user selects together.
FileLists ==
    { <<FileWithId, FileNotWellFormed>>,
      <<FileWithoutId>>,
      <<FileWithoutId, FileWithId>> }

\* What Math.random() yields in the App's calls of scopeSvgContent: a token
\* that is empty or not, and one suffix.
AppTokens == { <<>>, <<"x">> }

AppSuffixes == { <<"1", "0", "0", "0">> }

\* What the user types into the id input, and into a seconds input.
TypedIds == { <<"b">>, <<" ">> }

TypedSeconds == { Seconds(0), Seconds(20000) }

AppInit ==
    /\ IdleScope
    /\ IdlePrefix
    /\ IdleSanitize
    /\ entries = <<>>
    /\ activeEntryId = NoEntry
    /\ copiedEntryId = NoEntry
    /\ readers = {}
    /\ copying = {}
    /\ ops = 0

\* activeEntry
ActiveIndex == FindEntry(entries, activeEntryId)

\* The controls of the active entry are rendered: it is not processing and
\* its result is ok.
ControlsShown ==
    /\ ActiveIndex # 0
    /\ ~entries[ActiveIndex].isProcessing
    /\ ResultOk(entries[ActiveIndex])

\* handleFileSelection(files): the ids of the new entries are fresh.
handleFileSelection(files) ==
    /\ Len(entries) + Len(files) <= MaxEntries
    /\ entries' =
          entries \o [k \in 1..Len(files) |->
                         NewEntry(generateEntryId(entries, k), files[k].name)]
    /\ activeEntryId' =
          IF activeEntryId # NoEntry THEN activeEntryId
          ELSE generateEntryId(entries, 1)
    /\ readers' =
          readers \cup {[entryId |-> generateEntryId(entries, k), file |-> files[k]] :
                           k \in 1..Len(files)}
    /\ UNCHANGED <<copiedEntryId, copying, ops>>

SelectFiles ==
    /\ \E files \in FileLists : handleFileSelection(files)
    /\ UNCHANGED <<scopeVars, prefixVars, sanitizeVars>>

\* reader.onload of one of the readers
ReaderLoad ==
    /\ \E reader \in readers, suffix \in AppSuffixes, token \in AppTokens :
          /\ entries' = onload(entries, reader, suffix, token)
          /\ readers' = readers \ {reader}
    /\ UNCHANGED <<activeEntryId, copiedEntryId, copying, ops>>
    /\ UNCHANGED <<scopeVars, prefixVars, sanitizeVars>>

\* reader.onerror of one of the readers
ReaderError ==
    /\ \E reader \in readers :
          /\ entries' = onerror(entries, reader)
          /\ readers' = readers \ {reader}
    /\ UNCHANGED <<activeEntryId, copiedEntryId, copying, ops>>
    /\ UNCHANGED <<scopeVars, prefixVars, sanitizeVars>>

\* A click on an entry of the list: setActiveEntryId(entry.id)
SelectEntry ==
    /\ \E k \in 1..Len(entries) :
          /\ entries[k].id # activeEntryId
          /\ activeEntryId' = entries[k].id
    /\ ops < MaxOps
    /\ ops' = ops + 1
    /\ UNCHANGED <<entries, copiedEntryId, readers, copying>>
    /\ UNCHANGED <<scopeVars, prefixVars, sanitizeVars>>

\* onChange of the id input
EditDesiredId ==
    /\ ControlsShown
    /\ ops < MaxOps
    /\ \E typed \in TypedIds :
          entries' = MapEntry(entries, activeEntryId,
                              [entries[ActiveIndex] EXCEPT !.desiredId = typed])
    /\ ops' = ops + 1
    /\ UNCHANGED <<activeEntryId, copiedEntryId, readers, copying>>
    /\ UNCHANGED <<scopeVars, prefixVars, sanitizeVars>>

\* onChange of the seconds input of one of the level rects of the result
EditSeconds ==
    /\ ControlsShown
    /\ ops < MaxOps
    /\ \E rectId \in Range(AppLevelRectIds) \cap Range(entries[ActiveIndex].result.v.levelRects),
          typed \in TypedSeconds :
          entries' = MapEntry(entries, activeEntryId,
                              [entries[ActiveIndex] EXCEPT
                                  !.levelTransitionSeconds[rectId] =
                                      [has |-> TRUE, v |-> typed]])
    /\ ops' = ops + 1
    /\ UNCHANGED <<activeEntryId, copiedEntryId, readers, copying>>
    /\ UNCHANGED <<scopeVars, prefixVars, sanitizeVars>>

\* The button that applies the id: handleApplyId(activeEntry.id, shouldForceNew)
ApplyId ==
    /\ ControlsShown
    /\ ops < MaxOps
    /\ \E suffix \in AppSuffixes, token \in AppTokens :
          entries' = handleApplyId(entries, activeEntryId,
                                   shouldForceNew(entries[ActiveIndex]),
                                   suffix, token)
    /\ copiedEntryId' = IF copiedEntryId = activeEntryId THEN NoEntry ELSE copiedEntryId
    /\ ops' = ops + 1
    /\ UNCHANGED <<activeEntryId, readers, copying>>
    /\ UNCHANGED <<scopeVars, prefixVars, sanitizeVars>>

\* The button under the seconds inputs: handleApplyLevelTransitions(activeEntry.id)
ApplyLevelTransitions ==
    /\ ControlsShown
    /\ entries[ActiveIndex].result.v.levelRects # <<>>
    /\ ops < MaxOps
    /\ \E suffix \in AppSuffixes, token \in AppTokens :
          entries' = handleApplyLevelTransitions(entries, activeEntryId, suffix, token)
    /\ ops' = ops + 1
    /\ UNCHANGED <<activeEntryId, copiedEntryId, readers, copying>>
    /\ UNCHANGED <<scopeVars, prefixVars, sanitizeVars>>

\* handleCopy(activeEntry) up to its await
Copy ==
    /\ ControlsShown
    /\ ops < MaxOps
    /\ copying' = copying \cup {activeEntryId}
    /\ ops' = ops + 1
    /\ UNCHANGED <<entries, activeEntryId, copiedEntryId, readers>>
    /\ UNCHANGED <<scopeVars, prefixVars, sanitizeVars>>

\* handleCopy after its await, the clipboard write fulfilled
CopyDone ==
    /\ \E entryId \in copying :
          /\ copiedEntryId' = entryId
          /\ copying' = copying \ {entryId}
    /\ UNCHANGED <<entries, activeEntryId, readers, ops>>
    /\ UNCHANGED <<scopeVars, prefixVars, sanitizeVars>>

\* handleCopy after its await, the clipboard write rejected
CopyFailed ==
    /\ \E entryId \in copying :
          /\ entries' = CopyFailure(entries, entryId)
          /\ copying' = copying \ {entryId}
    /\ UNCHANGED <<activeEntryId, copiedEntryId, readers, ops>>
    /\ UNCHANGED <<scopeVars, prefixVars, sanitizeVars>>

\* The timeout of handleCopy: setCopiedEntryId(null)
CopiedTimeout ==
    /\ copiedEntryId # NoEntry
    /\ copiedEntryId' = NoEntry
    /\ UNCHANGED <<entries, activeEntryId, readers, copying, ops>>
    /\ UNCHANGED <<scopeVars, prefixVars, sanitizeVars>>

AppNext ==
    \/ SelectFiles
    \/ ReaderLoad
    \/ ReaderError
    \/ SelectEntry
    \/ EditDesiredId
    \/ EditSeconds
    \/ ApplyId
    \/ ApplyLevelTransitions
    \/ Copy
    \/ CopyDone
    \/ CopyFailed
    \/ CopiedTimeout

AppSpec == AppInit /\ [][AppNext]_vars

\* Every FileReader eventually fires onload or onerror.
ReaderFires == ReaderError \/ ReaderLoad

AppLiveSpec == AppInit /\ [][AppNext]_vars /\ WF_vars(ReaderFires)

(***************************************************************************)
(* Predicates on selectors, for the claims                                 *)
(***************************************************************************)

HasNoId(selector) == \A c \in Range(selector) : c.type # "IdSelector"

HasIdIn(selector, names) ==
    \E c \in Range(selector) : c.type = "IdSelector" /\ c.name \in names

\* Every id component is foreign: there is one, and none is the target or an
\* alias.
IsForeignOnly(selector, id, aliasSet) ==
    /\ ~HasNoId(selector)
    /\ ~HasIdIn(selector, aliasSet \cup {id})

(***************************************************************************)
(* Claims about scopeSvgContent (Spec)                                     *)
(***************************************************************************)

\* The first call has returned.
Scoped == pc \in {"scoped", "rescoped"}

HasTransition(decls) ==
    \E d \in Range(decls) : isTransitionProperty(d.property)

\* The declarations of the style blocks of a document.
BlockHasTransition(text) ==
    \E rule \in Range(text.rules) : HasTransition(rule.decls)

\* C1: scoping the processed text of an ok result again, with desiredId = the
\* svgId of that result, returns changed = false and scopedBefore = true.
C1_Idempotent ==
    pc = "rescoped" => (~r2.changed /\ r2.scopedBefore)

\* C2: the processed document of an ok result holds no transition or
\* transition-* declaration, in no style block and in no inline style
\* attribute of any element, the root included.
C2_NoTransitionRemains ==
    (Scoped /\ r1.ok) =>
        /\ \A text \in Range(r1.processed.styles) : ~BlockHasTransition(text)
        /\ ~HasTransition(r1.processed.style.decls)
        /\ \A node \in Range(r1.processed.elems) : ~HasTransition(node.style.decls)

\* C3: scopedAfter of an ok result is true only if every selector examined in
\* every non-blank style block holds the target id after the pass (it held
\* the target id or an alias, which was renamed, or it was prefixed).
C3_ScopedAfterSound ==
    (Scoped /\ r1.ok /\ r1.scopedAfter) =>
        \A text \in Range(r1.processed.styles) :
            \A rule \in Range(text.rules) :
                rule.prelude = "SelectorList" =>
                    \A selector \in Range(rule.selectors) :
                        HasIdIn(selector, {r1.svgId})

\* C4: a result with ok = false has a non-empty error, an empty svgId, every
\* flag false, no classes, warnings or level rects, and processed equal to
\* the input text; the XML parse failure and the missing <svg> root alike.
C4_FailureEchoesInput ==
    (Scoped /\ ~r1.ok) =>
        /\ r1.error # ""
        /\ r1.error = IF svgText.wellFormed THEN NO_ROOT_ERROR ELSE PARSE_ERROR
        /\ r1.svgId = <<>>
        /\ ~r1.generatedId /\ ~r1.scopedBefore /\ ~r1.scopedAfter /\ ~r1.changed
        /\ r1.classes = <<>> /\ r1.warnings = <<>> /\ r1.levelRects = <<>>
        /\ r1.processed = svgText

\* C4 witness: a document with an id, a style block and a prolog whose root is
\* not <svg> was refused.
C4_Witness ==
    /\ pc = "scoped"
    /\ ~r1.ok
    /\ r1.error = NO_ROOT_ERROR
    /\ svgText.wellFormed
    /\ svgText.prolog
    /\ svgText.id.has
    /\ svgText.styles # <<>>

RECURSIVE FirstNonEmpty(_)
FirstNonEmpty(candidates) ==
    IF candidates = <<>> THEN <<>>
    ELSE IF Head(candidates) # <<>> THEN Head(candidates)
    ELSE FirstNonEmpty(Tail(candidates))

SanitizedDesired == sanitizeId(OrEmpty(opts.desiredId))

SanitizedCurrent == sanitizeId(Trim(OrEmpty(svgText.id)))

\* C5: svgId is the first non-empty of sanitize(desiredId) and
\* sanitize(trimmed current id), both only when forceNewId is false, then
\* deriveFromFileName(fileName), then generateRandom(); generatedId is true
\* exactly when forceNewId is true or both sanitized ids are empty; with
\* forceNewId, the id comes from the file name or the generator.
C5_TargetPrecedence ==
    (Scoped /\ r1.ok) =>
        /\ \E suffix \in Suffixes, token \in Tokens :
              r1.svgId =
                  FirstNonEmpty(<<
                      IF opts.forceNewId THEN <<>> ELSE SanitizedDesired,
                      IF opts.forceNewId THEN <<>> ELSE SanitizedCurrent,
                      deriveIdFromFileName(opts.fileName, suffix),
                      generateSvgId(token)>>)
        /\ r1.generatedId <=>
              (opts.forceNewId \/ (SanitizedDesired = <<>> /\ SanitizedCurrent = <<>>))
        /\ opts.forceNewId =>
              \E suffix \in Suffixes, token \in Tokens :
                  r1.svgId \in {deriveIdFromFileName(opts.fileName, suffix),
                                generateSvgId(token)}

\* C5 witness: the desired id, sanitized, won over a usable current id.
C5_Witness ==
    /\ pc = "scoped"
    /\ r1.ok
    /\ ~opts.forceNewId
    /\ svgText.id = Present(<<"b">>)
    /\ opts.desiredId = Present(<<"1", " ", "x">>)
    /\ opts.fileName.has
    /\ r1.svgId = <<"s", "v", "g", "-", "1", "-", "x">>
    /\ ~r1.generatedId

\* C6: the id attribute of the root of the processed document equals svgId,
\* and changed is true whenever the id attribute of the input root, as
\* written or absent, differs from svgId.
C6_RootIdIsSvgId ==
    (Scoped /\ r1.ok) =>
        /\ r1.processed.id = Present(r1.svgId)
        /\ svgText.id # Present(r1.svgId) => r1.changed

\* C7: whatever the options, the alias list passed to the scoping pass holds
\* exactly the current id, the sanitized current id, the desired id and the
\* sanitized desired id, without the empty string and without the target id.
C7_AliasSet ==
    (Scoped /\ r1.ok) =>
        \A suffix \in Suffixes, token \in Tokens :
            ResolveIds(svgText, opts, suffix, token).targetId = r1.svgId =>
                Range(ResolveIds(svgText, opts, suffix, token).aliasIds) =
                    {Trim(OrEmpty(svgText.id)), SanitizedCurrent,
                     OrEmpty(opts.desiredId), SanitizedDesired}
                    \ {<<>>, r1.svgId}

(***************************************************************************)
(* Claims about prefixCssSelectors (PrefixSpec)                            *)
(***************************************************************************)

\* The places <<i, j>> of the selectors of a sheet: selector j of rule i.
SelectorPlaces(rules) ==
    {p \in (1..Len(rules)) \X (1..(MaxSelectors + 1)) :
        /\ rules[p[1]].prelude = "SelectorList"
        /\ p[2] <= Len(rules[p[1]].selectors)}

InSel(p) == sheet.rules[p[1]].selectors[p[2]]

OutSel(p) == pres.css.rules[p[1]].selectors[p[2]]

PrefixDone == ppc = "done" /\ sheet.kind = "css"

SameShape ==
    /\ pres.css.kind = "css"
    /\ Len(pres.css.rules) = Len(sheet.rules)
    /\ \A i \in 1..Len(sheet.rules) :
          /\ pres.css.rules[i].prelude = sheet.rules[i].prelude
          /\ Len(pres.css.rules[i].selectors) = Len(sheet.rules[i].selectors)

SheetAliasSet == AliasSet(sheetAliases, sheetId)

\* C8: each selector of a selector list is handled on its own: a non-empty
\* selector with no id component gets IdSelector(targetId) and a descendant
\* combinator at its front, its own components following in their order, and
\* sets selectorsChanged; an empty selector is left empty and does not set
\* selectorsChanged (the flag is set only by a prefixed or alias-renamed
\* selector).
C8_PrefixPerSelector ==
    PrefixDone =>
        /\ SameShape
        /\ \A p \in SelectorPlaces(sheet.rules) :
              /\ (InSel(p) # <<>> /\ HasNoId(InSel(p))) =>
                    /\ OutSel(p) = <<IdSelector(sheetId), Descendant>> \o InSel(p)
                    /\ pres.selectorsChanged
              /\ InSel(p) = <<>> => OutSel(p) = <<>>
        /\ pres.selectorsChanged <=>
              \E p \in SelectorPlaces(sheet.rules) :
                  \/ InSel(p) # <<>> /\ HasNoId(InSel(p))
                  \/ HasIdIn(InSel(p), SheetAliasSet)

\* C8 witness: one selector list held an empty selector, left empty, and a
\* selector without id, which got the prefix in front of its three components.
C8_Witness ==
    /\ PrefixDone
    /\ pres.selectorsChanged
    /\ \E p \in SelectorPlaces(sheet.rules), q \in SelectorPlaces(sheet.rules) :
          /\ p[1] = q[1]
          /\ InSel(p) = <<>>
          /\ OutSel(p) = <<>>
          /\ InSel(q) = <<ClsA, Combinator(<<">">>), ClsB>>
          /\ OutSel(q) = <<IdSelector(sheetId), Descendant, ClsA,
                           Combinator(<<">">>), ClsB>>

\* C9: a selector with an id component named by an alias has, after the pass,
\* every such component named targetId and every other component as it was,
\* no prefix (same length), selectorsChanged set, and no warning, also when
\* it holds a foreign id too; and no id component named by an alias is left
\* in any selector of any rule.
C9_AliasBeforeForeign ==
    PrefixDone =>
        /\ SameShape
        /\ \A p \in SelectorPlaces(sheet.rules) :
              HasIdIn(InSel(p), SheetAliasSet) =>
                  /\ Len(OutSel(p)) = Len(InSel(p))
                  /\ \A k \in 1..Len(InSel(p)) :
                        OutSel(p)[k] =
                            IF HasIdIn(<<InSel(p)[k]>>, SheetAliasSet)
                            THEN IdSelector(sheetId)
                            ELSE InSel(p)[k]
                  /\ pres.selectorsChanged
                  /\ \A w \in Range(pres.warnings) :
                        w.selector \notin {InSel(p), OutSel(p)}
        /\ \A p \in SelectorPlaces(sheet.rules) :
              ~HasIdIn(OutSel(p), SheetAliasSet)

\* C9 witness: a selector holding an alias and a foreign id was renamed and
\* not warned about.
C9_Witness ==
    /\ PrefixDone
    /\ sheetId = IdA
    /\ IdB \in SheetAliasSet
    /\ pres.warnings = <<>>
    /\ \E p \in SelectorPlaces(sheet.rules) :
          /\ InSel(p) = <<IdSelector(IdB), Descendant, IdSelector(IdF)>>
          /\ OutSel(p) = <<IdSelector(IdA), Descendant, IdSelector(IdF)>>

RECURSIVE ForeignWarnings(_, _, _)
\* One warning for each foreign-only selector of a list, in order.
ForeignWarnings(selectors, id, aliasSet) ==
    IF selectors = <<>> THEN <<>>
    ELSE (IF IsForeignOnly(Head(selectors), id, aliasSet)
          THEN <<ForeignIdWarning(Head(selectors))>>
          ELSE <<>>)
         \o ForeignWarnings(Tail(selectors), id, aliasSet)

\* C10: a selector whose id components are all foreign keeps exactly its
\* components, gets exactly one warning quoting its text, and does not set
\* selectorsChanged; the warnings of a pass are exactly those of its
\* foreign-only selectors, in order; and the selectors and rules that follow
\* one are still processed.
C10_ForeignIdSkipped ==
    PrefixDone =>
        /\ SameShape
        /\ \A p \in SelectorPlaces(sheet.rules) :
              IsForeignOnly(InSel(p), sheetId, SheetAliasSet) =>
                  /\ OutSel(p) = InSel(p)
                  /\ Cardinality({k \in 1..Len(pres.warnings) :
                        pres.warnings[k] = ForeignIdWarning(InSel(p))}) >= 1
                  /\ \A q \in SelectorPlaces(sheet.rules) :
                        (/\ q[1] > p[1] \/ (q[1] = p[1] /\ q[2] > p[2])
                         /\ InSel(q) # <<>>
                         /\ HasNoId(InSel(q))) =>
                            Head(OutSel(q)) = IdSelector(sheetId)
        /\ pres.warnings =
              Cat([i \in 1..Len(sheet.rules) |->
                      IF sheet.rules[i].prelude = "SelectorList"
                      THEN ForeignWarnings(sheet.rules[i].selectors, sheetId,
                                           SheetAliasSet)
                      ELSE <<>>])
        /\ (\A p \in SelectorPlaces(sheet.rules) :
                IsForeignOnly(InSel(p), sheetId, SheetAliasSet))
              => ~pres.selectorsChanged

\* C10 witness: a foreign-only selector was warned about and left alone, and
\* a selector of a later rule was prefixed.
C10_Witness ==
    /\ PrefixDone
    /\ Len(pres.warnings) = 1
    /\ \E p \in SelectorPlaces(sheet.rules), q \in SelectorPlaces(sheet.rules) :
          /\ q[1] > p[1]
          /\ IsForeignOnly(InSel(p), sheetId, SheetAliasSet)
          /\ pres.warnings[1] = ForeignIdWarning(InSel(p))
          /\ OutSel(p) = InSel(p)
          /\ HasNoId(InSel(q))
          /\ Head(OutSel(q)) = IdSelector(sheetId)


(***************************************************************************)
(* Claims on the declarations prefixCssSelectors removes (PrefixSpec)      *)
(***************************************************************************)

\* The property name in lower case.
LowerName(property) == [i \in 1..Len(property) |-> ToLowerWord(property[i])]

\* The name is '-letters-' followed by rest.
IsVendored(name, rest) ==
    \E w \in LowerWords : name = <<"-", w, "-">> \o rest

\* The name is 'transition' or starts with 'transition-'.
IsTransitionName(name) ==
    name # <<>> /\ name[1] = "transition" /\ (Len(name) > 1 => name[2] = "-")

\* A transition property, as the rule is worded: the lower-cased name, with
\* one leading vendor prefix removed when it has one.
NamesTransition(property) ==
    LET name == LowerName(property)
        k == Len(name)
    IN  IF k >= 3 /\ IsVendored(name, SubSeq(name, 4, k))
        THEN IsTransitionName(SubSeq(name, 4, k))
        ELSE IsTransitionName(name)

KeepsDeclaration(d) == ~NamesTransition(d.property)

\* C11: prefixCssSelectors removes exactly the transition declarations of
\* every rule, adjacent ones included; the other declarations stay in their
\* order; transitionsStripped is true iff a declaration was removed.
C11_TransitionsStripped ==
    PrefixDone =>
        /\ Len(pres.css.rules) = Len(sheet.rules)
        /\ \A i \in 1..Len(sheet.rules) :
              pres.css.rules[i].decls = SelectSeq(sheet.rules[i].decls, KeepsDeclaration)
        /\ pres.transitionsStripped <=>
              \E i \in 1..Len(sheet.rules) :
                  \E j \in 1..Len(sheet.rules[i].decls) :
                      NamesTransition(sheet.rules[i].decls[j].property)

\* A rule with three adjacent transition declarations between others was
\* stripped.
C11_Witness ==
    /\ PrefixDone
    /\ pres.transitionsStripped
    /\ \E i \in 1..Len(sheet.rules) :
          /\ Len(sheet.rules[i].decls) = 6
          /\ \A j \in 2..4 : NamesTransition(sheet.rules[i].decls[j].property)
          /\ pres.css.rules[i].decls = <<TransitionsNearMiss, CustomTransition, FillRed>>


(***************************************************************************)
(* Claims on the style blocks of a document (Spec)                         *)
(***************************************************************************)

\* The places of the style elements whose text css-tree cannot parse.
BadBlocks(doc) == {i \in 1..Len(doc.styles) : doc.styles[i].kind = "bad"}

\* The places of the style elements whose text parses to rules.
CssBlocks(doc) == {i \in 1..Len(doc.styles) : doc.styles[i].kind = "css"}

\* The number of times w stands in the list.
CountOf(list, w) == Cardinality({i \in 1..Len(list) : list[i] = w})

\* The block was handled by the scoping pass: no transition declaration is
\* left and every selector that is not empty holds an #id.
BlockProcessed(text) ==
    /\ ~BlockHasTransition(text)
    /\ \A rule \in Range(text.rules) :
          rule.prelude = "SelectorList" =>
              \A sel \in Range(rule.selectors) : sel = <<>> \/ ~HasNoId(sel)

\* C12: on a text that cannot be parsed prefixCssSelectors returns the text
\* with every flag false and one warning; scopeSvgContent leaves such a block
\* as it was, appends the warning once per such block, still handles every
\* other block, and returns ok with scopedBefore and scopedAfter false.
C12_ParseFailureSkipsBlock ==
    (Scoped /\ r1.ok /\ BadBlocks(svgText) # {}) =>
        /\ \A i \in BadBlocks(svgText) :
              /\ prefixCssSelectors(svgText.styles[i], r1.svgId, <<>>) =
                    [css |-> svgText.styles[i], changed |-> FALSE,
                     selectorsChanged |-> FALSE, transitionsStripped |-> FALSE,
                     allScoped |-> FALSE, warnings |-> <<ParseFailedWarning>>]
              /\ r1.processed.styles[i] = svgText.styles[i]
        /\ CountOf(r1.warnings, ParseFailedWarning) = Cardinality(BadBlocks(svgText))
        /\ \A j \in CssBlocks(svgText) : BlockProcessed(r1.processed.styles[j])
        /\ ~r1.scopedBefore
        /\ ~r1.scopedAfter

\* A document with a block that cannot be parsed before a block that was
\* rewritten.
C12_Witness ==
    /\ pc = "scoped"
    /\ r1.ok
    /\ Len(svgText.styles) = 2
    /\ svgText.styles[1].kind = "bad"
    /\ svgText.styles[2].kind = "css"
    /\ r1.processed.styles[2] # svgText.styles[2]
    /\ r1.warnings = <<ParseFailedWarning>>

\* currentId and aliasIds of the first call, which returned svgId = r1.svgId.
DocCurrentId == Trim(OrEmpty(svgText.id))

DocAliasIds ==
    AliasIds(DocCurrentId,
             IF opts.forceNewId THEN <<>> ELSE sanitizeId(DocCurrentId),
             opts.desiredId, r1.svgId)

\* The places of the style elements whose text is not blank.
NonBlankBlocks(doc) == {i \in 1..Len(doc.styles) : doc.styles[i].kind # "blank"}

\* Every selector of every rule of the text holds an #id that is the target
\* id or an alias.
EverySelectorScoped(text, id, aliases) ==
    \A rule \in Range(text.rules) :
        \A sel \in Range(rule.selectors) :
            HasIdIn(sel, ({id} \cup Range(aliases)) \ {<<>>})

\* allScoped as prefixCssSelectors returns it for block i of the document.
BlockAllScoped(i) ==
    prefixCssSelectors(svgText.styles[i], r1.svgId, DocAliasIds).allScoped

\* C13: allScoped is true iff every selector of every rule of the sheet held
\* the target id or an alias before rewriting; scopedBefore is true iff
\* allScoped is true for every block that is not blank.
C13_AllScoped ==
    (Scoped /\ r1.ok) =>
        /\ \A i \in CssBlocks(svgText) :
              BlockAllScoped(i) <=>
                  EverySelectorScoped(svgText.styles[i], r1.svgId, DocAliasIds)
        /\ r1.scopedBefore <=> \A i \in NonBlankBlocks(svgText) : BlockAllScoped(i)

\* A scoped block with a rule, after a blank block, gives scopedBefore.
C13_Witness ==
    /\ pc = "scoped"
    /\ r1.ok
    /\ r1.scopedBefore
    /\ Len(svgText.styles) = 2
    /\ svgText.styles[1].kind = "blank"
    /\ svgText.styles[2].kind = "css"
    /\ svgText.styles[2].rules # <<>>
    /\ BlockAllScoped(2)

(***************************************************************************)
(* Claims on inline styles and level rects (Spec)                          *)
(***************************************************************************)

\* The declarations of a style attribute that are not transitions.
KeptDecls(style) == SelectSeq(style.decls, KeepsDeclaration)

\* What the stripping pass is to leave of a style attribute: the attribute as
\* it was when nothing is to be stripped, no attribute when nothing is left,
\* the remaining declarations otherwise.
StrippedAs(before, after) ==
    IF KeptDecls(before) = before.decls THEN after = before
    ELSE IF KeptDecls(before) = <<>> THEN ~after.has
    ELSE after.has /\ after.decls = KeptDecls(before)

IsKnownLevelRect(node) ==
    node.tag = "rect" /\ node.id \in Range(LEVEL_RECT_IDS)

\* C14: every inline style attribute of the document, that of the root
\* included, is stripped of its transition declarations, and changed is true
\* when something was stripped.  (Level rects, which get a declaration
\* appended afterwards, are left to C16.)
C14_InlineStylesStripped ==
    (Scoped /\ r1.ok) =>
        /\ StrippedAs(svgText.style, r1.processed.style)
        /\ KeptDecls(svgText.style) # svgText.style.decls => r1.changed
        /\ \A i \in 1..Len(svgText.elems) :
              ~IsKnownLevelRect(svgText.elems[i]) =>
                  /\ StrippedAs(svgText.elems[i].style, r1.processed.elems[i].style)
                  /\ KeptDecls(svgText.elems[i].style) # svgText.elems[i].style.decls
                        => r1.changed

\* The first rect element of the document with that id, or 0.
LevelRectAt(doc, id) ==
    IF \E i \in 1..Len(doc.elems) : doc.elems[i].tag = "rect" /\ doc.elems[i].id = id
    THEN CHOOSE i \in 1..Len(doc.elems) :
            /\ doc.elems[i].tag = "rect" /\ doc.elems[i].id = id
            /\ \A j \in 1..(i - 1) : ~(doc.elems[j].tag = "rect" /\ doc.elems[j].id = id)
    ELSE 0

\* The known level rects of the document that were found.
FoundLevelRects(doc) == {id \in Range(LEVEL_RECT_IDS) : LevelRectAt(doc, id) # 0}

\* x + width/2 and y + height/2, x and y being 0 when they hold no number.
CenterX(rect) == (IF rect.x.num THEN rect.x.n ELSE 0) + rect.width.n \div 2

CenterY(rect) == (IF rect.y.num THEN rect.y.n ELSE 0) + rect.height.n \div 2

\* The multiple of 0.001 nearest to n, the upper one of two equally near.
ToThousandths(n) == CHOOSE m \in (n - 4)..(n + 5) : m % 10 = 0

\* The transform attribute after the pass, for the rotation center (cx, cy):
\* the rotation follows the existing value unless that value holds it; a rect
\* without numeric width or height keeps its attribute.
TransformAsClaimed(before, after, cx, cy) ==
    IF before.width.num /\ before.height.num
    THEN /\ after.transform.has
         /\ after.transform.fns =
               IF Rotate180(cx, cy) \in Range(before.transform.fns)
               THEN before.transform.fns
               ELSE Append(before.transform.fns, Rotate180(cx, cy))
    ELSE after.transform = before.transform

\* A second application leaves every transform attribute as the first left it.
TransformsStable ==
    pc = "rescoped" =>
        \A i \in 1..Len(r1.processed.elems) :
            r2.processed.elems[i].transform = r1.processed.elems[i].transform

\* C15 as stated: the rotation center is (x + width/2, y + height/2).
C15_RotationAppended ==
    (Scoped /\ r1.ok) =>
        /\ \A id \in FoundLevelRects(svgText) :
              TransformAsClaimed(svgText.elems[LevelRectAt(svgText, id)],
                                 r1.processed.elems[LevelRectAt(svgText, id)],
                                 CenterX(svgText.elems[LevelRectAt(svgText, id)]),
                                 CenterY(svgText.elems[LevelRectAt(svgText, id)]))
        /\ TransformsStable

\* C15, amended: the rotation center is (x + width/2, y + height/2) rounded
\* to three decimals; the rotation follows any existing transform value, is
\* not appended when the value already holds it, a second application leaves
\* the attribute unchanged, and a rect without numeric width or height gets
\* no rotation.
C15_RotationAppendedRounded ==
    (Scoped /\ r1.ok) =>
        /\ \A id \in FoundLevelRects(svgText) :
              TransformAsClaimed(
                  svgText.elems[LevelRectAt(svgText, id)],
                  r1.processed.elems[LevelRectAt(svgText, id)],
                  ToThousandths(CenterX(svgText.elems[LevelRectAt(svgText, id)])),
                  ToThousandths(CenterY(svgText.elems[LevelRectAt(svgText, id)])))
        /\ TransformsStable

\* A level rect whose center has more than three decimals got its rotation
\* after the translate it had, and the second application has run.
C15_Witness ==
    /\ pc = "rescoped"
    /\ \E i \in 1..Len(svgText.elems) :
          /\ IsKnownLevelRect(svgText.elems[i])
          /\ svgText.elems[i].transform.fns = <<Translate>>
          /\ CenterY(svgText.elems[i]) # ToThousandths(CenterY(svgText.elems[i]))
          /\ Len(r1.processed.elems[i].transform.fns) = 2
          /\ r2.processed.elems[i].transform = r1.processed.elems[i].transform

\* levelTransitionSeconds[id], or 5 when that entry is absent.
ClaimedSeconds(id) ==
    IF opts.levelTransitionSeconds[id].has
    THEN opts.levelTransitionSeconds[id].v
    ELSE [kind |-> "num", n |-> 5 * 10000]

\* N is finite and positive.
SecondsApply(seconds) == seconds.kind = "num" /\ seconds.n > 0

\* 'transition: height Ns', n being N.
HeightTransition(n) ==
    [property |-> <<"transition">>, value |-> [text |-> "height <n>s", n |-> n]]

\* C16 as stated: the style of a found level rect is its input style followed
\* by 'transition: height Ns', and is the input style when N is not positive
\* or not finite.
C16_TransitionAppended ==
    (Scoped /\ r1.ok) =>
        \A id \in FoundLevelRects(svgText) :
            LET before == svgText.elems[LevelRectAt(svgText, id)].style
                after == r1.processed.elems[LevelRectAt(svgText, id)].style
            IN  IF SecondsApply(ClaimedSeconds(id))
                THEN /\ after.has
                     /\ after.decls =
                           Append(before.decls, HeightTransition(ClaimedSeconds(id).n))
                ELSE after.has = before.has /\ after.decls = before.decls

\* C16, amended: every declaration of the input style that is not a
\* transition declaration is still there, in order, and 'transition: height
\* Ns' follows, N rounded to three decimals; when N is not positive or not
\* finite nothing is appended and the style holds nothing the input did not
\* hold.
C16_TransitionAppendedAfterStrip ==
    (Scoped /\ r1.ok) =>
        \A id \in FoundLevelRects(svgText) :
            LET before == svgText.elems[LevelRectAt(svgText, id)].style
                after == r1.processed.elems[LevelRectAt(svgText, id)].style
                k == Len(after.decls)
            IN  IF SecondsApply(ClaimedSeconds(id))
                THEN /\ after.has
                     /\ k >= 1
                     /\ after.decls[k] =
                           HeightTransition(ToThousandths(ClaimedSeconds(id).n))
                     /\ SelectSeq(SubSeq(after.decls, 1, k - 1), KeepsDeclaration)
                           = KeptDecls(before)
                ELSE /\ KeptDecls(after) = KeptDecls(before)
                     /\ Range(after.decls) \subseteq Range(before.decls)

\* Two level rects were found: the one with N = -1 kept its style; the other
\* lost the transition declaration it had and got the one for the default
\* 5 s after what was left.
C16_Witness ==
    /\ pc = "scoped"
    /\ r1.ok
    /\ Len(svgText.elems) = 2
    /\ svgText.elems[1].id = "level1"
    /\ svgText.elems[1].tag = "rect"
    /\ opts.levelTransitionSeconds["level1"].has
    /\ svgText.elems[1].style.decls = <<FillRed>>
    /\ r1.processed.elems[1].style.decls = <<FillRed>>
    /\ svgText.elems[2].id = "level_1"
    /\ svgText.elems[2].tag = "rect"
    /\ svgText.elems[2].style.decls = <<TransitionHeight, FillRed>>
    /\ r1.processed.elems[2].style.decls = <<FillRed, HeightTransition(50000)>>

\* The document holds a rect element whose id attribute is id.
HasRectWithId(id) ==
    \E node \in Range(svgText.elems) : node.tag = "rect" /\ node.id = id

\* C17: levelRects is the subsequence of [level, level1, level_1, level2] of
\* the ids for which the document holds a rect element with that id, whatever
\* its width, height and transition seconds; another tag with such an id is
\* not recognized.
C17_LevelRectsInOrder ==
    (Scoped /\ r1.ok) => r1.levelRects = SelectSeq(LEVEL_RECT_IDS, HasRectWithId)

\* rect#level2 stands before a <g id="level"> and only the rect is recorded.
C17_Witness ==
    /\ pc = "scoped"
    /\ r1.ok
    /\ Len(svgText.elems) = 2
    /\ svgText.elems[1].tag = "rect" /\ svgText.elems[1].id = "level2"
    /\ svgText.elems[2].tag = "g" /\ svgText.elems[2].id = "level"
    /\ r1.levelRects = <<"level2">>


(***************************************************************************)
(* Claims on the classes of a result (Spec)                                *)
(***************************************************************************)

\* The place of a class name in the order sort() uses.
ClassRank(c) == CHOOSE i \in 1..Len(ClassOrder) : ClassOrder[i] = c

\* The '.identifier' tokens of the style elements whose text is not blank.
StyleClassTokens(doc) ==
    UNION {LexicalClasses(doc.styles[i]) : i \in NonBlankBlocks(doc)}

\* The class attribute tokens of every element, the root included.
ClassAttributeTokens(doc) ==
    Range(doc.class) \cup UNION {Range(node.class) : node \in Range(doc.elems)}

\* C18: classes is sorted, without duplicates, and is the union of the
\* '.identifier' tokens of the original text of every non-blank style block
\* (one that fails to parse included) and of the class attribute tokens of
\* every element, the root <svg> included.
C18_ClassesCollected ==
    (Scoped /\ r1.ok) =>
        /\ \A i, j \in 1..Len(r1.classes) :
              i < j => ClassRank(r1.classes[i]) < ClassRank(r1.classes[j])
        /\ Range(r1.classes) = StyleClassTokens(svgText) \cup ClassAttributeTokens(svgText)


(***************************************************************************)
(* Claims on sanitizeId (SanitizeSpec)                                     *)
(***************************************************************************)

\* The first character of the normalized value that is kept and is no
\* hyphen: what the result would start with.  "" when there is none.
FirstKept(value) ==
    LET n == Nfkc(value)
        kept == {i \in 1..Len(n) : IsIdSafe(n[i]) /\ n[i] # "-"}
    IN  IF kept = {} THEN ""
        ELSE n[CHOOSE i \in kept : \A j \in kept : i <= j]

\* The value is written with ASCII letters and digits only.
IsAsciiAlphanumeric(value) == \A c \in Range(value) : c \in Letters \cup AsciiDigits

\* The text matches [A-Za-z_][A-Za-z0-9_-]*.
MatchesIdPattern(text) ==
    /\ text # <<>>
    /\ Head(text) \in Letters \cup {"_"}
    /\ \A c \in Range(text) : c \in Letters \cup AsciiDigits \cup {"_", "-"}

\* C19: the result of sanitizeId is empty or made of letters, numbers,
\* underscores and single hyphens, none of them first or last, and never
\* starts with a digit 0-9: a result that would start with one starts with
\* 'svg-' instead.  For a non-empty ASCII alphanumeric value it matches
\* [A-Za-z_][A-Za-z0-9_-]*.
C19_SanitizedIdShape ==
    spc = "done" =>
        /\ idOut # <<>> =>
              /\ \A c \in Range(idOut) : c \in Letters \cup Numbers \cup {"_", "-"}
              /\ Head(idOut) \notin AsciiDigits \cup {"-"}
              /\ idOut[Len(idOut)] # "-"
              /\ \A i \in 1..(Len(idOut) - 1) : ~(idOut[i] = "-" /\ idOut[i + 1] = "-")
        /\ FirstKept(idIn) \in AsciiDigits =>
              /\ Len(idOut) > 4
              /\ SubSeq(idOut, 1, 4) = <<"s", "v", "g", "-">>
              /\ idOut[5] = FirstKept(idIn)
        /\ (idIn # <<>> /\ IsAsciiAlphanumeric(idIn)) => MatchesIdPattern(idOut)

\* A value that starts with a superscript one and holds an unsafe run came
\* back with the svg- prefix.
C19_Witness ==
    /\ spc = "done"
    /\ idIn = <<"sup1", " ", ".">>
    /\ idOut = <<"s", "v", "g", "-", "1">>


(***************************************************************************)
(* Claims on a second run of prefixCssSelectors (PrefixSpec)               *)
(***************************************************************************)

\* Both runs have returned, the first on a text that parses.
PrefixedAgain == ppc = "again" /\ sheet.kind = "css"

\* The sheet holds an empty selector.
HasEmptySelector(text) ==
    \E rule \in Range(text.rules) : \E sel \in Range(rule.selectors) : sel = <<>>

\* The selector starts with '#id #id '.
PrefixedTwice(sel, id) ==
    /\ Len(sel) >= 4
    /\ SubSeq(sel, 1, 4) = <<IdSelector(id), Descendant, IdSelector(id), Descendant>>

\* C20: prefixCssSelectors applied to the css it returned, with the same
\* target id and aliases, returns that css with selectorsChanged,
\* transitionsStripped and changed false; no selector gets the prefix a
\* second time; allScoped is true when the first run pushed no warning and
\* the sheet holds no empty selector.
C20_PrefixIdempotent ==
    PrefixedAgain =>
        /\ pres2.css = pres.css
        /\ ~pres2.selectorsChanged
        /\ ~pres2.transitionsStripped
        /\ ~pres2.changed
        /\ \A rule \in Range(pres2.css.rules) :
              \A sel \in Range(rule.selectors) : ~PrefixedTwice(sel, sheetId)
        /\ (pres.warnings = <<>> /\ ~HasEmptySelector(sheet)) => pres2.allScoped

\* The first run prefixed a selector, renamed an alias and stripped a
\* transition without a warning; the second run found everything scoped.
C20_Witness ==
    /\ PrefixedAgain
    /\ pres.selectorsChanged
    /\ pres.transitionsStripped
    /\ ~pres.allScoped
    /\ pres.warnings = <<>>
    /\ \E p \in SelectorPlaces(sheet.rules) : HasNoId(InSel(p))
    /\ \E p \in SelectorPlaces(sheet.rules) : HasIdIn(InSel(p), SheetAliasSet)
    /\ pres2.allScoped
    /\ pres2.css = pres.css


(***************************************************************************)
(* Claims on the changed flags (Spec)                                      *)
(***************************************************************************)

\* What prefixCssSelectors returns for block i of the document.
BlockResult(i) == prefixCssSelectors(svgText.styles[i], r1.svgId, DocAliasIds)

\* The id attribute of the root was set.
RootIdSet == r1.processed.id # svgText.id

\* Some style block returned changed.
SomeBlockChanged == \E i \in NonBlankBlocks(svgText) : BlockResult(i).changed

\* The inline style of some descendant of the root was stripped.
SomeInlineStripped ==
    \E node \in Range(svgText.elems) :
        /\ node.style.has
        /\ node.style.decls # <<>>
        /\ stripTransitionFromInlineStyle(node.style).changed

\* The enhancement of some found level rect set its transform or its style
\* attribute.
SomeLevelRectModified ==
    \E id \in FoundLevelRects(svgText) :
        \/ r1.processed.elems[LevelRectAt(svgText, id)].transform
              # svgText.elems[LevelRectAt(svgText, id)].transform
        \/ SecondsApply(ClaimedSeconds(id))

\* C21: changed of prefixCssSelectors is selectorsChanged or
\* transitionsStripped; the text of a style element is replaced iff its block
\* returned changed; changed of the result is true iff the root id was set,
\* a block returned changed, an inline style was stripped or a level rect was
\* modified; with changed = false the processed document is the parsed input.
C21_ChangedAccountsForMutations ==
    (Scoped /\ r1.ok) =>
        /\ \A i \in NonBlankBlocks(svgText) :
              /\ BlockResult(i).changed <=>
                    (BlockResult(i).selectorsChanged
                        \/ BlockResult(i).transitionsStripped)
              /\ r1.processed.styles[i] =
                    IF BlockResult(i).changed
                    THEN BlockResult(i).css ELSE svgText.styles[i]
              /\ BlockResult(i).changed => BlockResult(i).css # svgText.styles[i]
        /\ r1.changed <=>
              (RootIdSet \/ SomeBlockChanged \/ SomeInlineStripped
                  \/ SomeLevelRectModified)
        /\ ~r1.changed => r1.processed = [svgText EXCEPT !.prolog = FALSE]

\* The only mutation was the enhancement of a level rect, and changed is
\* true.
C21_Witness ==
    /\ pc = "scoped"
    /\ r1.ok
    /\ r1.changed
    /\ ~RootIdSet
    /\ ~SomeBlockChanged
    /\ ~SomeInlineStripped
    /\ SomeLevelRectModified

(***************************************************************************)
(* C22: the svgId of a result is a fixed point of sanitizeId, so applying  *)
(* the level transitions keeps it                                          *)
(***************************************************************************)

\* The entries whose result is stored and ok.
OkEntries == {k \in 1..Len(entries) : ResultOk(entries[k])}

\* The entry at index k holds an ok result before and after the step, with the
\* same svgId.
KeepsSvgId(k) ==
    /\ ResultOk(entries[k])
    /\ ResultOk(entries'[k])
    /\ entries'[k].result.v.svgId = entries[k].result.v.svgId
    /\ sanitizeId(entries[k].result.v.svgId) = entries[k].result.v.svgId

\* C22: the svgId of the result the active entry holds is a fixed point of
\* sanitizeId, and a step of handleApplyLevelTransitions on that entry leaves
\* it with an ok result of the same svgId.
C22_ApplyLevelTransitionsKeepsSvgId ==
    [][ApplyLevelTransitions => KeepsSvgId(ActiveIndex)]_vars

(***************************************************************************)
(* C23: a failed result is never stored, and what the handlers leave in    *)
(* result and error                                                        *)
(***************************************************************************)

\* Exactly one of result and error is non-null.
ExactlyOneOfResultAndError(entry) == entry.result.has # (entry.error # NoError)

\* No entry holds a result with ok=false.
NoFailedResultStored ==
    \A k \in 1..Len(entries) : entries[k].result.has => entries[k].result.v.ok

\* The step gives the entry at index k an error it did not have and leaves it
\* with a result.
SetsErrorKeepingResult(k) ==
    /\ entries'[k].error # NoError
    /\ entries'[k].error # entries[k].error
    /\ entries'[k].result.has

\* What a step of the App does to result and error.
ResultAndErrorStep ==
    /\ ReaderLoad =>
          \A reader \in readers \ readers' :
              ExactlyOneOfResultAndError(entries'[FindEntry(entries', reader.entryId)])
    /\ ApplyId => ExactlyOneOfResultAndError(entries'[ActiveIndex])
    /\ ApplyLevelTransitions => ExactlyOneOfResultAndError(entries'[ActiveIndex])
    /\ \A k \in 1..Len(entries) : SetsErrorKeepingResult(k) => CopyFailed

\* C23: in every state each entry's result is null or has ok=true; a step of
\* reader.onload, handleApplyId or handleApplyLevelTransitions leaves the
\* entry it targets with exactly one of result and error non-null; and a step
\* that gives an entry a new error while the entry keeps a result is the
\* failure of a clipboard write (a file-read failure sets error on an entry
\* whose result is null).
C23_ResultOrError == [](NoFailedResultStored) /\ [][ResultAndErrorStep]_vars

\* An entry of a.svg that handleApplyId gave a new id and on which a
\* clipboard write then failed, so that it holds a result and an error, next
\* to an entry whose text did not parse, which holds an error and no result.
C23_Witness ==
    /\ Len(entries) = 2
    /\ ResultOk(entries[1])
    /\ entries[1].fileName = FileWithId.name
    /\ entries[1].result.v.svgId # <<"a">>
    /\ entries[1].error = CLIPBOARD_ERROR
    /\ ~entries[2].result.has
    /\ entries[2].error = PARSE_ERROR
    /\ ~entries[2].isProcessing

(***************************************************************************)
(* C24: the callbacks of the file readers, in any order                    *)
(***************************************************************************)

\* The entry has a reader that has not called back yet.
HasReader(entry) == \E reader \in readers : reader.entryId = entry.id

\* An entry is processing exactly while its reader has not called back.
ProcessingUntilCallback ==
    \A k \in 1..Len(entries) : entries[k].isProcessing <=> HasReader(entries[k])

\* The step leaves every entry but the one with that id as it was.
OnlyEntryModified(entryId) ==
    /\ Len(entries') = Len(entries)
    /\ \A k \in 1..Len(entries) :
          entries[k].id # entryId => entries'[k] = entries[k]

\* The step removes no entry and moves none.
EntriesKept ==
    /\ Len(entries') >= Len(entries)
    /\ \A k \in 1..Len(entries) : entries'[k].id = entries[k].id

\* What a step of the App does to the list of entries.
CallbackStep ==
    /\ EntriesKept
    /\ ReaderFires =>
          \A reader \in readers \ readers' :
              /\ OnlyEntryModified(reader.entryId)
              /\ ~entries'[FindEntry(entries', reader.entryId)].isProcessing

SomeProcessing == \E k \in 1..Len(entries) : entries[k].isProcessing

\* No entry is processing and every entry has a result or an error.
Settled ==
    \A k \in 1..Len(entries) :
        /\ ~entries[k].isProcessing
        /\ entries[k].result.has \/ entries[k].error # NoError

\* C24: whatever the order of the readers' callbacks and the handlers between
\* them, an onload or onerror step changes only the entry with its own id and
\* leaves that entry not processing; no step removes or moves an entry; an
\* entry is processing exactly from its selection until its own callback; and,
\* every reader eventually firing onload or onerror, a state with a processing
\* entry is followed by one where no entry is processing and each has a
\* result or an error.
C24_CallbacksIndependent ==
    /\ [](ProcessingUntilCallback)
    /\ [][CallbackStep]_vars
    /\ (SomeProcessing ~> Settled)

\* Two files selected together, the reader of the second done before the
\* reader of the first, and handleApplyId run on the second entry meanwhile.
C24_Witness ==
    /\ Len(entries) = 2
    /\ entries[1].isProcessing
    /\ ~entries[2].isProcessing
    /\ entries[2].fileName = FileWithId.name
    /\ ResultOk(entries[2])
    /\ entries[2].result.v.svgId # <<"a">>
    /\ activeEntryId = entries[2].id


====
